---------------------------- MODULE Spec2Model ----------------------------
(***************************************************************************)
(* A model of karkinos, a command line scraper (src/src/main.rs and        *)
(* src/src/types.rs): the fetch orchestrator fetch_with_config (cache      *)
(* lookup, client construction, retry loop, cache write), the pagination   *)
(* engine generate_paginated_urls, the emptiness check is_empty_result and *)
(* the tree extractor populate_values.                                     *)
(*                                                                         *)
(* Text is modelled as a sequence of characters, so that prefix tests,     *)
(* substitution, concatenation and splitting at "/" are computed as the    *)
(* code computes them.  A page text (html) is modelled by the node         *)
(* sequence its parse yields.                                              *)
(***************************************************************************)
EXTENDS Integers, Sequences, FiniteSets, TLC

VARIABLES
    config,       \* ScrapeRoot.config (ScrapeRootConfig): immutable after construction
    data_config,  \* ScrapeRoot.data (DataConfig): the run's data schema
    env,          \* the build and the process environment: overflow checks, log level
    site,         \* the web: the pages a server may answer a url with
    fs,           \* the files of the cache directory: cache path -> contents
    fpc,          \* position of the running fetch_with_config call
    fcaller,      \* who called fetch_with_config
    furl,         \* its url argument
    client,       \* the reqwest client built for this call
    attempts,     \* its local attempts
    html,         \* the decoded body of the response, between send and store
    fresult,      \* its return value
    netlog,       \* history of this call: attempts made and retry sleeps
    iofault,      \* history of this call: the cache I/O step that failed
    cached,       \* history of this call: the cache file of url when it was called
    served,       \* history of the run: url -> text of its first network fetch
    gpc,          \* position of the running generate_paginated_urls call
    base_url,     \* its base_url argument
    urls,         \* its local urls
    page_num,     \* pattern strategy: the loop variable
    current_url,  \* next-link strategy: its local current_url
    page_count,   \* next-link strategy: its local page_count
    gresult,      \* its return value
    upages,       \* history: the page number each entry of urls was generated for
    probelog,     \* history: the pages fetched while generating, with the verdicts
    gfetches,     \* history: the fetch_with_config calls made while generating
    pauses,       \* history: the rate limiting sleeps made
    data,         \* the ReturnedData last extracted
    verdict,      \* what is_empty_result said of it
    mpc,          \* position of main
    murls,        \* main's urls
    idx,          \* main's loop index, counted from 0
    all_results,  \* main's all_results, as far as collected
    output,       \* the output_data handed to the writer
    mresult,      \* main's return value
    mlog,         \* history of main's loop: the fetches and the sleeps, in order
    doc,          \* extraction on its own: the parsed page
    xpc,          \* extraction on its own: whether it returned or panicked
    arg,          \* a function applied on its own: its arguments
    ret,          \* a function applied on its own: its value
    pending       \* the reduce step: the mappings still to be combined, in order

fetchvars == <<fpc, fcaller, furl, client, attempts, html, fresult, netlog, iofault, cached>>
cfgvars == <<config, data_config, env, site>>
genvars == <<gpc, base_url, urls, page_num, current_url, page_count, gresult, upages, probelog,
             gfetches, pauses>>
exvars == <<data, verdict>>
mainvars == <<mpc, murls, idx, all_results, output, mresult, mlog>>
unitvars == <<doc, xpc, arg, ret, pending>>
vars == <<cfgvars, fs, fetchvars, served, genvars, exvars, mainvars, unitvars>>

-----------------------------------------------------------------------------
(* Values: Option<T>, AnyhowResult<String>, text *)

None == <<>>

Some(x) == <<x>>

IsSome(o) == o # <<>>

Unwrap(o) == o[1]

NoText == <<>>

Ok(text) == [ok |-> TRUE, text |-> text, err |-> ""]

Err(e) == [ok |-> FALSE, text |-> NoText, err |-> e]

NoResult == [ok |-> FALSE, text |-> NoText, err |-> "pending"]

NoClient == [built |-> FALSE, timeout |-> 0, proxy |-> None]

(* A text node and an element node of a parsed page. *)
TextNode(s) == [tag |-> "#text", attrs |-> <<>>, kids |-> <<>>, text |-> s]

Elem(tag, attrs, kids) == [tag |-> tag, attrs |-> attrs, kids |-> kids, text |-> <<>>]

(* A HashMap: a function whose domain is its key set. *)
EmptyMap == [k \in {} |-> k]

-----------------------------------------------------------------------------
(* ReturnedData and is_empty_result: src/src/types.rs 198-209,               *)
(* src/src/main.rs 198-215                                                   *)

StringItem(s) == [kind |-> "StringItem", s |-> s, n |-> 0, b |-> FALSE, items |-> <<>>]

NumberItem(n) == [kind |-> "NumberItem", s |-> <<>>, n |-> n, b |-> FALSE, items |-> <<>>]

BoolItem(b) == [kind |-> "BoolItem", s |-> <<>>, n |-> 0, b |-> b, items |-> <<>>]

DataItems(items) == [kind |-> "DataItems", s |-> <<>>, n |-> 0, b |-> FALSE, items |-> items]

(* The match arms of the loop over data.values() that return false. *)
HasContent_Truthy(value) ==
    CASE value.kind = "StringItem" -> value.s # <<>>
      [] value.kind = "DataItems" -> value.items # <<>>
      [] value.kind = "NumberItem" -> value.n # 0
      [] value.kind = "BoolItem" -> value.b

HasContent(value) ==
    CASE value.kind = "StringItem" /\ value.s # <<>> -> TRUE
      [] value.kind = "DataItems" /\ value.items # <<>> -> TRUE
      [] value.kind = "NumberItem" -> TRUE
      [] value.kind = "BoolItem" -> TRUE
      [] OTHER -> FALSE

is_empty_result(tree) ==
    IF DOMAIN tree = {}
    THEN TRUE
    ELSE ~(\E name \in DOMAIN tree : HasContent(tree[name]))

-----------------------------------------------------------------------------
(* Strings: a String is the sequence of its characters. *)

Whitespace == {" ", "\n", "\t"}

Digits == {"0", "1", "2", "3", "4", "5", "6", "7", "8", "9"}

LowerAlphabet ==
    <<"a", "b", "c", "d", "e", "f", "g", "h", "i", "j", "k", "l", "m",
      "n", "o", "p", "q", "r", "s", "t", "u", "v", "w", "x", "y", "z">>

UpperAlphabet ==
    <<"A", "B", "C", "D", "E", "F", "G", "H", "I", "J", "K", "L", "M",
      "N", "O", "P", "Q", "R", "S", "T", "U", "V", "W", "X", "Y", "Z">>

Letters == {LowerAlphabet[i] : i \in 1..Len(LowerAlphabet)}

UpperOf ==
    [c \in Letters |-> UpperAlphabet[CHOOSE i \in 1..Len(LowerAlphabet) : LowerAlphabet[i] = c]]

UpperLetters == {UpperOf[c] : c \in Letters}

UpperChar_Toggle(c) ==
    IF c \in Letters THEN UpperOf[c]
    ELSE IF c \in UpperLetters THEN CHOOSE l \in Letters : UpperOf[l] = c ELSE c

(* char::to_uppercase, char::to_lowercase *)
UpperChar(c) == IF c \in Letters THEN UpperOf[c] ELSE c

LowerChar(c) == IF c \in UpperLetters THEN CHOOSE l \in Letters : UpperOf[l] = c ELSE c

(* str::to_uppercase, str::to_lowercase *)
to_uppercase(s) == [i \in 1..Len(s) |-> UpperChar(s[i])]

to_lowercase(s) == [i \in 1..Len(s) |-> LowerChar(s[i])]

RECURSIVE TrimStart(_)
TrimStart(s) == IF s # <<>> /\ s[1] \in Whitespace THEN TrimStart(Tail(s)) ELSE s

RECURSIVE TrimEnd(_)
TrimEnd(s) ==
    IF s # <<>> /\ s[Len(s)] \in Whitespace THEN TrimEnd(SubSeq(s, 1, Len(s) - 1)) ELSE s

(* str::trim *)
trim(s) == TrimEnd(TrimStart(s))

(* str::starts_with *)
starts_with(s, prefix) == Len(s) >= Len(prefix) /\ SubSeq(s, 1, Len(prefix)) = prefix

(* str::contains *)
contains(s, pat) ==
    \E i \in 1..(Len(s) - Len(pat) + 1) : SubSeq(s, i, i + Len(pat) - 1) = pat

(* str::replace: every non-overlapping occurrence of from, left to right; an *)
(* empty from matches before every character and at the end.                 *)
RECURSIVE replace(_, _, _)
replace(s, from, to) ==
    IF from = <<>>
    THEN IF s = <<>> THEN to ELSE to \o <<s[1]>> \o replace(Tail(s), from, to)
    ELSE IF Len(s) < Len(from)
         THEN s
         ELSE IF SubSeq(s, 1, Len(from)) = from
              THEN to \o replace(SubSeq(s, Len(from) + 1, Len(s)), from, to)
              ELSE <<s[1]>> \o replace(Tail(s), from, to)

RECURSIVE Concat(_)
Concat(ss) == IF ss = <<>> THEN <<>> ELSE Head(ss) \o Concat(Tail(ss))

(* usize::to_string *)
DigitChar ==
    [d \in 0..9 |->
        CASE d = 0 -> "0" [] d = 1 -> "1" [] d = 2 -> "2" [] d = 3 -> "3" [] d = 4 -> "4"
          [] d = 5 -> "5" [] d = 6 -> "6" [] d = 7 -> "7" [] d = 8 -> "8" [] d = 9 -> "9"]

RECURSIVE to_string(_)
to_string(n) == IF n < 10 THEN <<DigitChar[n]>> ELSE to_string(n \div 10) \o <<DigitChar[n % 10]>>

DigitValue(c) == CHOOSE d \in 0..9 : DigitChar[d] = c

RECURSIVE DigitsValue(_)
DigitsValue(s) ==
    IF s = <<>> THEN 0 ELSE 10 * DigitsValue(SubSeq(s, 1, Len(s) - 1)) + DigitValue(s[Len(s)])

AllDigits(s) == \A i \in 1..Len(s) : s[i] \in Digits

(* The end of the run of digits that starts at s[i]. *)
RECURSIVE DigitRunEnd(_, _)
DigitRunEnd(s, i) == IF i < Len(s) /\ s[i + 1] \in Digits THEN DigitRunEnd(s, i + 1) ELSE i

-----------------------------------------------------------------------------
(* f64 and str::parse::<f64>: a number is its decimal expansion, mant / 10^scale, *)
(* without trailing zeros in the fraction.                                        *)

RECURSIVE Normalize(_, _)
Normalize(mant, scale) ==
    IF scale > 0 /\ mant % 10 = 0 THEN Normalize(mant \div 10, scale - 1)
    ELSE [mant |-> mant, scale |-> scale]

Number(mant, scale) == Normalize(mant, scale)

(* The unsigned decimal literals: digits, digits "." digits, digits ".", "." digits. *)
ParseUnsigned(s) ==
    LET dots == {i \in 1..Len(s) : s[i] = "."}
    IN  IF dots = {}
        THEN IF s # <<>> /\ AllDigits(s) THEN Some(Number(DigitsValue(s), 0)) ELSE None
        ELSE LET d == CHOOSE i \in dots : TRUE
                 int == SubSeq(s, 1, d - 1)
                 frac == SubSeq(s, d + 1, Len(s))
             IN  IF /\ Cardinality(dots) = 1 /\ AllDigits(int) /\ AllDigits(frac)
                    /\ Len(int) + Len(frac) > 0
                 THEN Some(Number(DigitsValue(int \o frac), Len(frac)))
                 ELSE None

(* f64::NAN and the infinities: no decimal expansion has a negative scale. *)
NaN == [mant |-> 0, scale |-> 0 - 1]

Infinity == [mant |-> 1, scale |-> 0 - 1]

RECURSIVE Pow10(_)
Pow10(e) == IF e = 0 THEN 1 ELSE 10 * Pow10(e - 1)

(* num * 10^e *)
Scale10(num, e) ==
    IF num.scale - e >= 0
    THEN Number(num.mant, num.scale - e)
    ELSE Number(num.mant * Pow10(e - num.scale), 0)

(* The exponent of a literal: an optional sign and digits. *)
ParseExponent(s) ==
    LET signed == s # <<>> /\ s[1] \in {"+", "-"}
        digits == IF signed THEN Tail(s) ELSE s
    IN  IF digits # <<>> /\ AllDigits(digits)
        THEN Some(IF signed /\ s[1] = "-" THEN 0 - DigitsValue(digits) ELSE DigitsValue(digits))
        ELSE None

(* An unsigned literal: "nan", "inf" or "infinity" in any case, or a decimal *)
(* literal with an optional exponent.                                        *)
ParseMagnitude(s) ==
    LET es == {i \in 1..Len(s) : s[i] \in {"e", "E"}}
    IN  IF to_lowercase(s) = <<"n", "a", "n">>
        THEN Some(NaN)
        ELSE IF to_lowercase(s) \in {<<"i", "n", "f">>,
                                     <<"i", "n", "f", "i", "n", "i", "t", "y">>}
        THEN Some(Infinity)
        ELSE IF es = {}
        THEN ParseUnsigned(s)
        ELSE LET i == CHOOSE k \in es : \A j \in es : k <= j
                 m == ParseUnsigned(SubSeq(s, 1, i - 1))
                 x == ParseExponent(SubSeq(s, i + 1, Len(s)))
             IN  IF IsSome(m) /\ IsSome(x) THEN Some(Scale10(Unwrap(m), Unwrap(x))) ELSE None

(* str::parse::<f64>: an optional sign and a magnitude. *)
parse_f64(s) ==
    IF s # <<>> /\ s[1] \in {"+", "-"}
    THEN LET u == ParseMagnitude(Tail(s))
         IN  IF IsSome(u) /\ s[1] = "-" /\ Unwrap(u) # NaN
             THEN Some([mant |-> 0 - Unwrap(u).mant, scale |-> Unwrap(u).scale])
             ELSE u
    ELSE ParseMagnitude(s)

-----------------------------------------------------------------------------
(* Regex::new and Regex::captures for the patterns the model's schemas use. *)

RegexDigits == <<"\\", "d", "+">>

RegexDecimal == <<"\\", "d", "+", "\\", ".", "\\", "d", "+">>

RegexUnclosed == <<"(", "\\", "d", "+">>

(* Regex::new(pattern).is_ok() *)
RegexNew(pattern) == pattern \in {RegexDigits, RegexDecimal}

(* Where a match of the pattern that starts at s[i] ends; 0 when there is none. *)
MatchEnd(pattern, s, i) ==
    IF s[i] \notin Digits
    THEN 0
    ELSE LET e == DigitRunEnd(s, i)
         IN  IF pattern = RegexDigits
             THEN e
             ELSE IF e + 2 <= Len(s) /\ s[e + 1] = "." /\ s[e + 2] \in Digits
                  THEN DigitRunEnd(s, e + 2)
                  ELSE 0

(* re.captures(&value).get(0): the leftmost match. *)
captures(pattern, s) ==
    LET starts == {i \in 1..Len(s) : MatchEnd(pattern, s, i) > 0}
    IN  IF starts = {}
        THEN None
        ELSE LET i == CHOOSE k \in starts : \A j \in starts : k <= j
             IN  Some(SubSeq(s, i, MatchEnd(pattern, s, i)))

-----------------------------------------------------------------------------
(* Parsed pages (scraper::Html) and selectors (scraper::Selector) *)

NameChars(name) ==
    CASE name = "h1" -> <<"h", "1">>
      [] name = "p" -> <<"p">>
      [] name = "ul" -> <<"u", "l">>
      [] name = "li" -> <<"l", "i">>
      [] name = "a" -> <<"a">>
      [] name = "span" -> <<"s", "p", "a", "n">>
      [] name = "b" -> <<"b">>
      [] name = "href" -> <<"h", "r", "e", "f">>
      [] name = "class" -> <<"c", "l", "a", "s", "s">>

(* Selector::parse: the selectors the model's configurations use. *)
SelectorParse(selector) ==
    CASE selector = "h1" -> [ok |-> TRUE, tag |-> "h1", class |-> <<>>]
      [] selector = "p" -> [ok |-> TRUE, tag |-> "p", class |-> <<>>]
      [] selector = "ul" -> [ok |-> TRUE, tag |-> "ul", class |-> <<>>]
      [] selector = "li" -> [ok |-> TRUE, tag |-> "li", class |-> <<>>]
      [] selector = "b" -> [ok |-> TRUE, tag |-> "b", class |-> <<>>]
      [] selector = "span" -> [ok |-> TRUE, tag |-> "span", class |-> <<>>]
      [] selector = "a" -> [ok |-> TRUE, tag |-> "a", class |-> <<>>]
      [] selector = "a.next" -> [ok |-> TRUE, tag |-> "a", class |-> <<"n", "e", "x", "t">>]
      [] OTHER -> [ok |-> FALSE, tag |-> "", class |-> <<>>]

(* element.value().attr(name) *)
attr(node, name) ==
    LET hits == {i \in 1..Len(node.attrs) : node.attrs[i][1] = name}
    IN  IF hits = {} THEN None
        ELSE Some(node.attrs[CHOOSE i \in hits : \A j \in hits : i <= j][2])

Matches(sel, node) ==
    /\ node.tag = sel.tag
    /\ sel.class # <<>> => attr(node, "class") = Some(sel.class)

(* The element nodes of a fragment in document order. *)
RECURSIVE Descendants(_)
Descendants(nodes) ==
    IF nodes = <<>>
    THEN <<>>
    ELSE LET n == Head(nodes)
         IN  (IF n.tag = "#text" THEN <<>> ELSE <<n>> \o Descendants(n.kids))
             \o Descendants(Tail(nodes))

(* html_parsed.root_element().select(&selector) *)
select(nodes, sel) ==
    LET Hit(n) == Matches(sel, n) IN SelectSeq(Descendants(nodes), Hit)

RECURSIVE SerializeAttrs(_)
SerializeAttrs(attrs) ==
    IF attrs = <<>>
    THEN <<>>
    ELSE <<" ">> \o NameChars(Head(attrs)[1]) \o <<"=", "\"">> \o Head(attrs)[2] \o <<"\"">>
         \o SerializeAttrs(Tail(attrs))

(* The markup of a node sequence. *)
RECURSIVE Serialize(_)
Serialize(nodes) ==
    IF nodes = <<>>
    THEN <<>>
    ELSE LET n == Head(nodes)
         IN  (IF n.tag = "#text"
              THEN n.text
              ELSE <<"<">> \o NameChars(n.tag) \o SerializeAttrs(n.attrs) \o <<">">>
                   \o Serialize(n.kids) \o <<"<", "/">> \o NameChars(n.tag) \o <<">">>)
             \o Serialize(Tail(nodes))

(* ElementRef::inner_html *)
inner_html(node) == Serialize(node.kids)

(* Html::parse_fragment(&value).root_element().text().collect(): the text    *)
(* outside of tags.  A "<" opens a tag when a letter or "/" follows it and a *)
(* ">" closes it.                                                            *)
RECURSIVE StripTags(_)
StripTags(s) ==
    IF s = <<>>
    THEN <<>>
    ELSE LET closes == {i \in 2..Len(s) : s[i] = ">"}
         IN  IF /\ s[1] = "<" /\ Len(s) >= 2 /\ s[2] \in Letters \cup UpperLetters \cup {"/"}
                /\ closes # {}
             THEN StripTags(SubSeq(s, (CHOOSE i \in closes : \A j \in closes : i <= j) + 1,
                                   Len(s)))
             ELSE <<s[1]>> \o StripTags(Tail(s))

(* ItemConfig with the defaults of its deserialisation: trim is true, nth is *)
(* 0, everything else is absent or false.                                    *)
ItemConfig(selector) ==
    [selector |-> selector, attr |-> None, data |-> None, trim |-> TRUE, nth |-> 0,
     default |-> None, regex |-> None, replace |-> None, uppercase |-> FALSE,
     lowercase |-> FALSE, to_number |-> FALSE, to_boolean |-> FALSE, strip_html |-> FALSE]

-----------------------------------------------------------------------------
(* apply_transformations and populate_values: src/src/main.rs 448-556 *)

apply_transformations_StripFirst(value0, item) ==
    LET v1 == IF item.strip_html THEN StripTags(value0) ELSE value0
        v2 == IF item.trim THEN trim(v1) ELSE v1
        v3 == IF /\ IsSome(item.regex) /\ RegexNew(Unwrap(item.regex))
                 /\ IsSome(captures(Unwrap(item.regex), v2))
              THEN Unwrap(captures(Unwrap(item.regex), v2))
              ELSE v2
        v4 == IF IsSome(item.replace) /\ Len(Unwrap(item.replace)) = 2
              THEN replace(v3, Unwrap(item.replace)[1], Unwrap(item.replace)[2])
              ELSE v3
    IN  IF item.uppercase THEN to_uppercase(v4)
        ELSE IF item.lowercase THEN to_lowercase(v4)
        ELSE v4

apply_transformations(value0, item) ==
    LET v1 == IF item.trim THEN trim(value0) ELSE value0
        v2 == IF item.strip_html THEN StripTags(v1) ELSE v1
        v3 == IF /\ IsSome(item.regex) /\ RegexNew(Unwrap(item.regex))
                 /\ IsSome(captures(Unwrap(item.regex), v2))
              THEN Unwrap(captures(Unwrap(item.regex), v2))
              ELSE v2
        v4 == IF IsSome(item.replace) /\ Len(Unwrap(item.replace)) = 2
              THEN replace(v3, Unwrap(item.replace)[1], Unwrap(item.replace)[2])
              ELSE v3
    IN  IF item.uppercase THEN to_uppercase(v4)
        ELSE IF item.lowercase THEN to_lowercase(v4)
        ELSE v4

TrueWords == {<<"t", "r", "u", "e">>, <<"1">>, <<"y", "e", "s">>, <<"o", "n">>}

Convert_BooleanFirst(value, item) ==
    IF item.to_boolean
    THEN BoolItem(trim(to_lowercase(value)) \in TrueWords)
    ELSE IF item.to_number /\ IsSome(parse_f64(trim(value)))
         THEN NumberItem(Unwrap(parse_f64(trim(value))))
         ELSE StringItem(value)

(* Lines 531-543: convert to appropriate type. *)
Convert(value, item) ==
    IF item.to_number
    THEN IF IsSome(parse_f64(trim(value)))
         THEN NumberItem(Unwrap(parse_f64(trim(value))))
         ELSE StringItem(value)
    ELSE IF item.to_boolean
         THEN BoolItem(trim(to_lowercase(value)) \in TrueWords)
         ELSE StringItem(value)

(* Lines 515-526: the raw value of a scalar field. *)
RawValue_NoDefault(matched, item) ==
    IF Len(matched) <= item.nth
    THEN <<>>
    ELSE IF IsSome(item.attr)
         THEN IF IsSome(attr(matched[item.nth + 1], Unwrap(item.attr)))
              THEN Unwrap(attr(matched[item.nth + 1], Unwrap(item.attr)))
              ELSE <<>>
         ELSE inner_html(matched[item.nth + 1])

RawValue(matched, item) ==
    IF Len(matched) <= item.nth
    THEN IF IsSome(item.default) THEN Unwrap(item.default) ELSE <<>>
    ELSE IF IsSome(item.attr)
         THEN IF IsSome(attr(matched[item.nth + 1], Unwrap(item.attr)))
              THEN Unwrap(attr(matched[item.nth + 1], Unwrap(item.attr)))
              ELSE <<>>
         ELSE inner_html(matched[item.nth + 1])

Merge_Overwrite(dt1, dt2) ==
    [name \in DOMAIN dt1 \cup DOMAIN dt2 |->
        IF name \in DOMAIN dt2 THEN dt2[name] ELSE dt1[name]]

(* dt2.iter().fold(dt1, |acc, (name, value)| acc.entry(name).or_insert(value)) *)
Merge(dt1, dt2) ==
    [name \in DOMAIN dt1 \cup DOMAIN dt2 |->
        IF name \in DOMAIN dt1 THEN dt1[name] ELSE dt2[name]]

Reduce_First(maps) == IF maps = <<>> THEN EmptyMap ELSE maps[1]

RECURSIVE Reduce(_)
Reduce(maps) ==
    IF maps = <<>> THEN EmptyMap
    ELSE Merge(Reduce(SubSeq(maps, 1, Len(maps) - 1)), maps[Len(maps)])

(* The keys of a map in one order of iteration. *)
RECURSIVE Keys(_)
Keys(names) ==
    IF names = {} THEN <<>>
    ELSE LET name == CHOOSE x \in names : TRUE IN <<name>> \o Keys(names \ {name})

(* config.get_item_selector() panics on a selector that does not parse: it  *)
(* is called for every field of the level, and for the fields of a nested    *)
(* level once per element the group's selector matches.                      *)
RECURSIVE populate_panics(_, _)
populate_panics(nodes, schema) ==
    \E name \in DOMAIN schema :
        \/ ~SelectorParse(schema[name].selector).ok
        \/ /\ IsSome(schema[name].data)
           /\ LET matched == select(nodes, SelectorParse(schema[name].selector))
              IN  \E i \in 1..Len(matched) :
                      populate_panics(<<matched[i]>>, Unwrap(schema[name].data))

(* Some selector of the schema, at any level, does not parse. *)
RECURSIVE HasMalformed(_)
HasMalformed(schema) ==
    \E name \in DOMAIN schema :
        \/ ~SelectorParse(schema[name].selector).ok
        \/ IsSome(schema[name].data) /\ HasMalformed(Unwrap(schema[name].data))

RECURSIVE populate_values(_, _)
populate_values(nodes, schema) ==
    LET Field(name) ==
            LET item == schema[name]
                matched == select(nodes, SelectorParse(item.selector))
            IN  IF IsSome(item.data)
                THEN (name :> DataItems([i \in 1..Len(matched) |->
                                            populate_values(<<matched[i]>>, Unwrap(item.data))]))
                ELSE (name :> Convert(apply_transformations(RawValue(matched, item), item),
                                      item))
        names == Keys(DOMAIN schema)
    IN  Reduce([i \in 1..Len(names) |-> Field(names[i])])

-----------------------------------------------------------------------------
(* fetch_with_config: src/src/main.rs 324-404 *)

(* hex(SHA-256(url)): distinct urls have distinct digests. *)
Sha256Hex(url) == <<"sha256:">> \o url

get_cache_path(url, cache_dir) == [dir |-> cache_dir, file |-> Sha256Hex(url) \o <<".html">>]

(* cache_path.exists() *)
PathExists_Never(path) == FALSE

PathExists(path) == path \in DOMAIN fs

(* The cache is consulted only with use_cache set and a cache_dir configured. *)
CacheConsulted == config.use_cache /\ IsSome(config.cache_dir)

(* reqwest::Proxy::all(proxy_url): fails on a proxy url it cannot parse. *)
ProxyAll(proxy_url) == proxy_url \in {"http://proxy:8080"}

max_attempts == config.retries + 1

(* if attempts >= max_attempts { return Err(e.into()); } *)
GiveUp_Late(n, max) == n > max

GiveUp(n, max) == n >= max

(* The Err(e) arm of the retry loop: return the error, or sleep and loop. *)
AfterFailure_NoSleep(n, max) == IF GiveUp(n, max) THEN "done" ELSE "send"

AfterFailure(n, max) == IF GiveUp(n, max) THEN "done" ELSE "sleep"

(* The Ok(response) arm: where the call goes once the body is decoded. *)
AfterResponse_NoStore(cache_dir) == "done"

AfterResponse_IfUseCache(cache_dir) ==
    IF IsSome(cache_dir) /\ config.use_cache THEN "store" ELSE "done"

AfterResponse(cache_dir) == IF IsSome(cache_dir) THEN "store" ELSE "done"

(* file.write_all(html.as_bytes()) *)
WrittenBytes_Truncated(text) == NoText

WrittenBytes(text) == text

(* What a failed write_all leaves in the file File::create has just truncated. *)
PartialWrites(text) == {SubSeq(text, 1, k) : k \in 0..(Len(text) - 1)} \cup {NoText}

(* match request.send() { Ok(response) => ..., Err(e) => ... }: a response of *)
(* any status is Ok; Err is a failure of the transport.                       *)
SendSucceeded_ErrorForStatus(outcome) == outcome.kind = "response" /\ outcome.status < 400

SendSucceeded(outcome) == outcome.kind = "response"

RetrySleepSecs == 1

SendEvent(outcome) ==
    [ev |-> "send", res |-> outcome.kind, err |-> outcome.err, status |-> outcome.status,
     body |-> outcome.body, decodable |-> outcome.decodable, secs |-> 0]

SleepEvent ==
    [ev |-> "sleep", res |-> "", err |-> "", status |-> 0, body |-> NoText,
     decodable |-> FALSE, secs |-> RetrySleepSecs]

(* Entry of fetch_with_config(url, config), called by who. *)
fetch_call(url, who) ==
    /\ fpc = "idle"
    /\ fpc' = "cache"
    /\ fcaller' = who
    /\ furl' = url
    /\ client' = NoClient
    /\ attempts' = 0
    /\ html' = NoText
    /\ fresult' = NoResult
    /\ netlog' = <<>>
    /\ iofault' = "none"
    /\ cached' = IF IsSome(config.cache_dir)
                    /\ get_cache_path(url, Unwrap(config.cache_dir)) \in DOMAIN fs
                 THEN Some(fs[get_cache_path(url, Unwrap(config.cache_dir))])
                 ELSE None

(* The caller takes the return value. *)
fetch_return ==
    /\ fpc = "done"
    /\ fpc' = "idle"
    /\ fcaller' = "nobody"
    /\ furl' = <<>>
    /\ client' = NoClient
    /\ attempts' = 0
    /\ html' = NoText
    /\ fresult' = NoResult
    /\ netlog' = <<>>
    /\ iofault' = "none"
    /\ cached' = None

(* Lines 332-344: check cache first.  read_ok: whether read_to_string succeeds. *)
fetch_check_cache(read_ok) ==
    /\ fpc = "cache"
    /\ IF CacheConsulted /\ PathExists(get_cache_path(furl, Unwrap(config.cache_dir)))
       THEN /\ fpc' = "done"
            /\ IF read_ok
               THEN /\ fresult' = Ok(fs[get_cache_path(furl, Unwrap(config.cache_dir))])
                    /\ iofault' = iofault
               ELSE /\ fresult' = Err("failed to read cache")
                    /\ iofault' = "read"
       ELSE /\ fpc' = "client"
            /\ UNCHANGED <<fresult, iofault>>
    /\ UNCHANGED <<mainvars, unitvars>>
    /\ UNCHANGED <<cfgvars, genvars, exvars, fs, fcaller, furl, client, attempts, html, netlog, cached, served>>

(* Lines 346-359: build the HTTP client; attempts = 0. *)
fetch_build_client ==
    /\ fpc = "client"
    /\ IF IsSome(config.proxy) /\ ~ProxyAll(Unwrap(config.proxy))
       THEN /\ fpc' = "done"
            /\ fresult' = Err("proxy")
            /\ client' = client
       ELSE /\ fpc' = "send"
            /\ client' = [built |-> TRUE, timeout |-> config.timeout, proxy |-> config.proxy]
            /\ fresult' = fresult
    /\ attempts' = 0
    /\ UNCHANGED <<mainvars, unitvars>>
    /\ UNCHANGED <<cfgvars, genvars, exvars, fs, fcaller, furl, html, netlog, iofault, cached, served>>

(* Lines 361-403: one turn of the retry loop: attempts += 1, request.send(),   *)
(* and on Ok(response) response.text().  outcome is what the network does.    *)
fetch_send(outcome) ==
    /\ fpc = "send"
    /\ attempts' = attempts + 1
    /\ netlog' = Append(netlog, SendEvent(outcome))
    /\ IF SendSucceeded(outcome)
       THEN IF outcome.decodable
            THEN /\ html' = outcome.body
                 /\ fpc' = AfterResponse(config.cache_dir)
                 /\ fresult' = IF AfterResponse(config.cache_dir) = "done"
                               THEN Ok(outcome.body) ELSE fresult
            ELSE /\ html' = html
                 /\ fpc' = "done"
                 /\ fresult' = Err("can't get url content")
       ELSE /\ html' = html
            /\ fpc' = AfterFailure(attempts + 1, max_attempts)
            /\ fresult' = IF AfterFailure(attempts + 1, max_attempts) = "done"
                          THEN Err(outcome.err) ELSE fresult
    /\ UNCHANGED <<mainvars, unitvars>>
    /\ UNCHANGED <<cfgvars, genvars, exvars, fs, fcaller, furl, client, iofault, cached, served>>

(* Line 400: thread::sleep(Duration::from_secs(1)), then the loop goes round. *)
fetch_retry_sleep ==
    /\ fpc = "sleep"
    /\ netlog' = Append(netlog, SleepEvent)
    /\ fpc' = "send"
    /\ UNCHANGED <<mainvars, unitvars>>
    /\ UNCHANGED <<cfgvars, genvars, exvars, fs, fcaller, furl, client, attempts, html, fresult, iofault,
                   cached, served>>

(* Lines 380-389: cache the response, then return Ok(html).  how: which step  *)
(* of create_dir_all, File::create, write_all fails, or "ok".                  *)
fetch_store(how) ==
    /\ fpc = "store"
    /\ fpc' = "done"
    /\ LET path == get_cache_path(furl, Unwrap(config.cache_dir))
       IN  CASE how = "ok" ->
                  /\ fs' = (path :> WrittenBytes(html)) @@ fs
                  /\ fresult' = Ok(html)
                  /\ iofault' = iofault
             [] how \in {"create_dir_all", "create"} ->
                  /\ fs' = fs
                  /\ fresult' = Err("io")
                  /\ iofault' = how
             [] how = "write_all" ->
                  /\ \E part \in PartialWrites(html) : fs' = (path :> part) @@ fs
                  /\ fresult' = Err("io")
                  /\ iofault' = how
    /\ UNCHANGED <<mainvars, unitvars>>
    /\ UNCHANGED <<cfgvars, genvars, exvars, fcaller, furl, client, attempts, html, netlog, cached, served>>

-----------------------------------------------------------------------------
(* generate_paginated_urls: src/src/main.rs 37-196 *)

GenOk(list) == [ok |-> TRUE, text |-> list, err |-> ""]

(* Line 57: start + 9, ten pages when no limit is given. *)
DefaultLastOffset == 9

(* Line 117: the safety limit of the next-link strategy. *)
DefaultMaxPages == 1000

(* Lines 49-58: the last page number of the pattern strategy. *)
PatternEnd(pagination) ==
    IF IsSome(pagination.end_page)
    THEN Unwrap(pagination.end_page)
    ELSE IF pagination.max_pages > 0
         THEN pagination.start_page + pagination.max_pages - 1
         ELSE pagination.start_page + DefaultLastOffset

(* Lines 60-65: log::info!("... total: {} pages", end - start + 1) evaluates  *)
(* its arguments when the info level is enabled; the usize subtraction        *)
(* panics in a build with overflow checks.                                    *)
LogPagesPanics(start, end) == env.log_info /\ env.overflow_checks /\ end < start

(* Lines 71-86: the url of a page number. *)
PatternUrl(base, pattern, n) ==
    LET url == IF contains(pattern, <<"{", "p", "a", "g", "e", "}">>)
               THEN replace(pattern, <<"{", "p", "a", "g", "e", "}">>, to_string(n))
               ELSE base \o replace(pattern, <<"{", "p", "a", "g", "e", "}">>, to_string(n))
    IN  IF starts_with(url, <<"h", "t", "t", "p">>) THEN url ELSE base \o url

(* Line 92: whether the page just pushed is fetched and checked. *)
ProbeJudged_Always(result) == TRUE

(* Line 94: if let Ok(html) = fetch_with_config(&full_url, config) *)
ProbeJudged(result) == result.ok

ProbesPage_Never(pagination, n) == FALSE

ProbesPage_FromFirst(pagination, n) == pagination.stop_on_empty /\ n >= pagination.start_page

ProbesPage(pagination, n) == pagination.stop_on_empty /\ n > pagination.start_page

(* Lines 112-118: the bound of the next-link strategy. *)
NextMaxPages(pagination) ==
    IF pagination.max_pages > 0 THEN pagination.max_pages ELSE DefaultMaxPages

(* Line 128: while page_count < max_pages *)
NextLoopRuns_Always(count, max) == TRUE

NextLoopRuns_Inclusive(count, max) == count <= max

NextLoopRuns(count, max) == count < max

(* str::split('/') *)
RECURSIVE split(_, _)
split(s, sep) ==
    LET at == {i \in 1..Len(s) : s[i] = sep}
    IN  IF at = {}
        THEN <<s>>
        ELSE LET i == CHOOSE k \in at : \A j \in at : k <= j
             IN  <<SubSeq(s, 1, i - 1)>> \o split(SubSeq(s, i + 1, Len(s)), sep)

(* Iterator::take(n) *)
take(parts, n) == SubSeq(parts, 1, IF Len(parts) < n THEN Len(parts) ELSE n)

(* [&str]::join(sep) *)
RECURSIVE join(_, _)
join(parts, sep) ==
    IF parts = <<>> THEN <<>>
    ELSE IF Len(parts) = 1 THEN parts[1]
    ELSE parts[1] \o <<sep>> \o join(Tail(parts), sep)

(* current_url.rsplit_once('/').map(|(b, _)| b).unwrap_or(&current_url) *)
BeforeLastSlash(s) ==
    LET at == {i \in 1..Len(s) : s[i] = "/"}
    IN  IF at = {} THEN s
        ELSE SubSeq(s, 1, (CHOOSE k \in at : \A j \in at : k >= j) - 1)

(* Lines 150-167: make absolute URL if needed. *)
ResolveHref(current, next_href) ==
    IF starts_with(next_href, <<"h", "t", "t", "p">>)
    THEN next_href
    ELSE IF starts_with(next_href, <<"/">>)
         THEN join(take(split(current, "/"), 3), "/") \o next_href
         ELSE BeforeLastSlash(current) \o <<"/">> \o next_href

Pagination == Unwrap(config.pagination)

(* One fetch of the generator: the page, its url, whether the fetch returned *)
(* a text, the text, whether it was extracted and judged, and the verdict.   *)
ProbeEntry(n, url, result, judged, empty) ==
    [page |-> n, url |-> url, ok |-> result.ok, text |-> result.text, judged |-> judged,
     empty |-> empty]

StopsOnEmpty_Never(stop_on_empty, tree) == FALSE

(* Lines 134-140: the emptiness test of a fetched page, made before its link *)
(* is looked for.                                                            *)
StopsOnEmpty(stop_on_empty, tree) == stop_on_empty /\ is_empty_result(tree)

NextElement_WithHref(found) ==
    LET linked == SelectSeq(found, LAMBDA n : IsSome(attr(n, "href")))
    IN  IF linked = <<>> THEN None ELSE Some(linked[1])

(* Line 147: parsed_html.select(&selector).next() *)
NextElement(found) == IF found = <<>> THEN None ELSE Some(found[1])

(* main, lines 247-256: generate_paginated_urls(base_url, pagination, ...) *)
gen_call(url) ==
    /\ gpc = "idle"
    /\ IsSome(config.pagination)
    /\ gpc' = "start"
    /\ base_url' = url
    /\ urls' = <<>>
    /\ UNCHANGED <<page_num, current_url, page_count, gresult, upages, probelog, gfetches,
                   pauses>>
    /\ UNCHANGED <<unitvars, cfgvars, fs, fetchvars, served, exvars>>

(* Lines 43-69 and 105-126: choose the strategy and set up its loop. *)
gen_start ==
    /\ gpc = "start"
    /\ IF IsSome(Pagination.page_pattern)
       THEN /\ gpc' = IF LogPagesPanics(Pagination.start_page, PatternEnd(Pagination))
                      THEN "panicked" ELSE "pattern"
            /\ page_num' = Pagination.start_page
            /\ UNCHANGED <<urls, upages, current_url, page_count, gresult>>
       ELSE IF IsSome(Pagination.next_selector)
            THEN /\ gpc' = "next"
                 /\ current_url' = base_url
                 /\ urls' = <<base_url>>
                 /\ upages' = <<1>>
                 /\ page_count' = 1
                 /\ UNCHANGED <<page_num, gresult>>
            ELSE /\ gpc' = "returned"
                 /\ gresult' = GenOk(urls)
                 /\ UNCHANGED <<urls, upages, current_url, page_count, page_num>>
    /\ UNCHANGED <<mainvars, unitvars>>
    /\ UNCHANGED <<cfgvars, fs, fetchvars, served, exvars, base_url, probelog, gfetches, pauses>>

(* Lines 70-92: one turn of the pattern loop up to the stop-on-empty fetch. *)
gen_pattern_page ==
    /\ gpc = "pattern"
    /\ IF page_num > PatternEnd(Pagination)
       THEN /\ gpc' = "returned"
            /\ gresult' = GenOk(urls)
            /\ UNCHANGED <<urls, upages, page_num, gfetches, fetchvars>>
       ELSE LET full_url == PatternUrl(base_url, Unwrap(Pagination.page_pattern), page_num)
            IN  /\ urls' = Append(urls, full_url)
                /\ upages' = Append(upages, page_num)
                /\ gresult' = gresult
                /\ IF ProbesPage(Pagination, page_num)
                   THEN /\ fetch_call(full_url, "probe")
                        /\ gpc' = "probe"
                        /\ gfetches' = gfetches + 1
                        /\ page_num' = page_num
                   ELSE /\ gpc' = "pattern"
                        /\ page_num' = page_num + 1
                        /\ UNCHANGED <<gfetches, fetchvars>>
    /\ UNCHANGED <<mainvars, unitvars>>
    /\ UNCHANGED <<cfgvars, fs, served, exvars, base_url, current_url, page_count, probelog,
                   pauses>>

(* Lines 94-102: the fetched page is extracted and judged; an empty page is   *)
(* popped and ends the loop, a failed fetch is passed over.                   *)
gen_pattern_probed ==
    /\ gpc = "probe"
    /\ fcaller = "probe"
    /\ fetch_return
    /\ IF ProbeJudged(fresult)
       THEN IF populate_panics(fresult.text, data_config)
            THEN /\ gpc' = "panicked"
                 /\ probelog' = Append(probelog, ProbeEntry(page_num, furl, fresult, FALSE,
                                                            FALSE))
                 /\ UNCHANGED <<urls, upages, page_num, gresult, data, verdict>>
            ELSE /\ data' = populate_values(fresult.text, data_config)
                 /\ verdict' = Some(is_empty_result(data'))
                 /\ probelog' = Append(probelog, ProbeEntry(page_num, furl, fresult, TRUE,
                                                            is_empty_result(data')))
                 /\ IF is_empty_result(data')
                    THEN /\ urls' = SubSeq(urls, 1, Len(urls) - 1)
                         /\ upages' = SubSeq(upages, 1, Len(upages) - 1)
                         /\ gpc' = "returned"
                         /\ gresult' = GenOk(urls')
                         /\ page_num' = page_num
                    ELSE /\ gpc' = "pattern"
                         /\ page_num' = page_num + 1
                         /\ UNCHANGED <<urls, upages, gresult>>
       ELSE /\ gpc' = "pattern"
            /\ page_num' = page_num + 1
            /\ probelog' = Append(probelog, ProbeEntry(page_num, furl, fresult, FALSE, FALSE))
            /\ UNCHANGED <<urls, upages, gresult, data, verdict>>
    /\ UNCHANGED <<mainvars, unitvars>>
    /\ UNCHANGED <<cfgvars, fs, served, base_url, current_url, page_count, gfetches, pauses>>

(* Lines 128-131 and 190-195: the loop test of the next-link strategy and the *)
(* fetch of the current page.                                                 *)
gen_next_loop ==
    /\ gpc = "next"
    /\ IF NextLoopRuns(page_count, NextMaxPages(Pagination))
       THEN /\ fetch_call(current_url, "next")
            /\ gpc' = "next_fetch"
            /\ gfetches' = gfetches + 1
            /\ gresult' = gresult
       ELSE /\ gpc' = "returned"
            /\ gresult' = GenOk(urls)
            /\ UNCHANGED <<gfetches, fetchvars>>
    /\ UNCHANGED <<mainvars, unitvars>>
    /\ UNCHANGED <<cfgvars, fs, served, exvars, base_url, urls, upages, page_num, current_url,
                   page_count, probelog, pauses>>

(* Lines 131-188: the rest of one turn of the next-link loop. *)
gen_next_fetched ==
    /\ gpc = "next_fetch"
    /\ fcaller = "next"
    /\ fetch_return
    /\ LET page == fresult.text
           judges == /\ fresult.ok /\ Pagination.stop_on_empty
                     /\ ~populate_panics(page, data_config)
           stops_empty == /\ judges
                          /\ StopsOnEmpty(Pagination.stop_on_empty,
                                          populate_values(page, data_config))
           selector == SelectorParse(Unwrap(Pagination.next_selector))
           next_element == NextElement(select(page, selector))
       IN  /\ probelog' = Append(probelog, ProbeEntry(page_count, current_url, fresult,
                                                      judges, stops_empty))
           /\ IF judges
              THEN /\ data' = populate_values(page, data_config)
                   /\ verdict' = Some(is_empty_result(data'))
              ELSE UNCHANGED <<data, verdict>>
           /\ IF ~fresult.ok
              THEN /\ gpc' = "returned"
                   /\ gresult' = Err(fresult.err)
                   /\ UNCHANGED <<urls, upages, current_url, page_count, pauses>>
              ELSE IF Pagination.stop_on_empty /\ populate_panics(page, data_config)
              THEN /\ gpc' = "panicked"
                   /\ UNCHANGED <<urls, upages, current_url, page_count, pauses, gresult>>
              ELSE IF stops_empty
              THEN /\ gpc' = "returned"
                   /\ gresult' = GenOk(urls)
                   /\ UNCHANGED <<urls, upages, current_url, page_count, pauses>>
              ELSE IF ~selector.ok
              THEN /\ gpc' = "returned"
                   /\ gresult' = Err("Invalid next_selector")
                   /\ UNCHANGED <<urls, upages, current_url, page_count, pauses>>
              ELSE IF ~IsSome(next_element) \/ ~IsSome(attr(Unwrap(next_element), "href"))
              THEN /\ gpc' = "returned"
                   /\ gresult' = GenOk(urls)
                   /\ UNCHANGED <<urls, upages, current_url, page_count, pauses>>
              ELSE /\ current_url' = ResolveHref(current_url,
                                                 Unwrap(attr(Unwrap(next_element), "href")))
                   /\ urls' = Append(urls, current_url')
                   /\ upages' = Append(upages, page_count + 1)
                   /\ page_count' = page_count + 1
                   /\ pauses' = IF config.delay > 0 THEN pauses + 1 ELSE pauses
                   /\ gpc' = "next"
                   /\ gresult' = gresult
    /\ UNCHANGED <<mainvars, unitvars>>
    /\ UNCHANGED <<cfgvars, fs, served, base_url, page_num, gfetches>>

-----------------------------------------------------------------------------
(* main: src/src/main.rs 217-322, with the validation and get_urls of        *)
(* src/src/types.rs 38-135.  The output format is json, the default.         *)

(* #[validate(url)]: the text parses as a URL; of the texts of the model the *)
(* ones that begin with a scheme and a colon.                                *)
validate_url(u) ==
    \E i \in 2..Len(u) : u[i] = ":" /\ \A j \in 1..(i - 1) : u[j] \in Letters

(* validate_urls: Err when neither url nor urls is given. *)
validate_urls(cfg) == ~(cfg.url = None /\ cfg.urls = None)

(* config_serialized.validate() *)
validate(cfg) ==
    /\ validate_urls(cfg)
    /\ IsSome(cfg.url) => validate_url(Unwrap(cfg.url))

(* ScrapeRootConfig::get_urls *)
get_urls(cfg) ==
    IF IsSome(cfg.urls) THEN Unwrap(cfg.urls)
    ELSE IF IsSome(cfg.url) THEN <<Unwrap(cfg.url)>>
    ELSE <<>>

(* Lines 247-248: pagination is present and there is one url. *)
Expands_Always(cfg, list) == IsSome(cfg.pagination) /\ list # <<>>

Expands(cfg, list) == IsSome(cfg.pagination) /\ Len(list) = 1

(* Lines 271-277: the delay before a request. *)
Sleeps_FromFirst(i, delay) == delay > 0

Sleeps(i, delay) == i > 0 /\ delay > 0

FetchFatal_Skipped(result) == FALSE

(* Line 279: the ? on the result of fetch_with_config. *)
FetchFatal(result) == ~result.ok

(* serde_json values. *)
JsonNull == [kind |-> "Null", s |-> <<>>, n |-> 0, b |-> FALSE, items |-> <<>>, fields |-> <<>>]

JsonString(s) == [JsonNull EXCEPT !.kind = "String", !.s = s]

JsonNumber(n) == [JsonNull EXCEPT !.kind = "Number", !.n = n]

JsonBool(b) == [JsonNull EXCEPT !.kind = "Bool", !.b = b]

JsonArray(items) == [JsonNull EXCEPT !.kind = "Array", !.items = items]

JsonObject(fields) == [JsonNull EXCEPT !.kind = "Object", !.fields = fields]

(* serde_json::to_value of a ReturnedData: the enum is untagged; a number    *)
(* that is not finite becomes null.                                          *)
RECURSIVE to_value(_)
to_value(tree) ==
    LET Item(item) ==
            IF item.kind = "StringItem" THEN JsonString(item.s)
            ELSE IF item.kind = "NumberItem"
                 THEN IF item.n \in {NaN, Infinity, [Infinity EXCEPT !.mant = -1]}
                      THEN JsonNull ELSE JsonNumber(item.n)
            ELSE IF item.kind = "BoolItem" THEN JsonBool(item.b)
            ELSE JsonArray([i \in 1..Len(item.items) |-> to_value(item.items[i])])
    IN  JsonObject([name \in DOMAIN tree |-> Item(tree[name])])

OutputData_AlwaysList(results) == JsonArray([i \in 1..Len(results) |-> to_value(results[i])])

(* Lines 292-297: if single URL, return single result; otherwise return array. *)
OutputData(results) ==
    IF Len(results) = 1
    THEN to_value(results[1])
    ELSE JsonArray([i \in 1..Len(results) |-> to_value(results[i])])

(* What main does, in order: a sleep, a call of fetch_with_config, the       *)
(* extraction of the text it returned, its failure.                          *)
MainEvent(ev, url, text) == [ev |-> ev, url |-> url, text |-> text]

(* Lines 238-244: validate the configuration and take its urls. *)
main_validate ==
    /\ mpc = "start"
    /\ IF validate(config)
       THEN /\ mpc' = "urls"
            /\ murls' = get_urls(config)
            /\ mresult' = mresult
       ELSE /\ mpc' = "failed"
            /\ mresult' = Err("invalid config")
            /\ murls' = murls
    /\ UNCHANGED <<idx, all_results, output, mlog>>
    /\ UNCHANGED <<unitvars, cfgvars, fs, fetchvars, served, genvars, exvars>>

(* Lines 246-258: handle pagination. *)
main_paginate ==
    /\ mpc = "urls"
    /\ IF Expands(config, murls)
       THEN /\ gen_call(murls[1])
            /\ mpc' = "paginating"
       ELSE /\ mpc' = "loop"
            /\ UNCHANGED <<unitvars, cfgvars, fs, fetchvars, served, genvars, exvars>>
    /\ UNCHANGED <<murls, idx, all_results, output, mresult, mlog>>

(* Lines 250-255: generate_paginated_urls(..)? has returned or panicked. *)
main_paginated ==
    /\ mpc = "paginating"
    /\ gpc \in {"returned", "panicked"}
    /\ IF gpc = "panicked"
       THEN mpc' = "panicked" /\ UNCHANGED <<murls, mresult>>
       ELSE IF gresult.ok
            THEN mpc' = "loop" /\ murls' = gresult.text /\ mresult' = mresult
            ELSE mpc' = "failed" /\ mresult' = Err(gresult.err) /\ murls' = murls
    /\ UNCHANGED <<idx, all_results, output, mlog>>
    /\ UNCHANGED <<unitvars, cfgvars, fs, fetchvars, served, genvars, exvars>>

(* Lines 264-279: the next url of the iteration: the delay, then the fetch;  *)
(* lines 290-319 once the urls are used up: the output is built and written. *)
main_loop ==
    /\ mpc = "loop"
    /\ IF idx < Len(murls)
       THEN /\ fetch_call(murls[idx + 1], "main")
            /\ mpc' = "fetch"
            /\ mlog' = mlog
                       \o (IF Sleeps(idx, config.delay)
                           THEN <<MainEvent("sleep", murls[idx + 1], NoText)>> ELSE <<>>)
                       \o <<MainEvent("fetch", murls[idx + 1], NoText)>>
            /\ UNCHANGED <<output, mresult>>
       ELSE /\ mpc' = "done"
            /\ output' = Some(OutputData(all_results))
            /\ mresult' = Ok(NoText)
            /\ UNCHANGED <<mlog, fetchvars>>
    /\ UNCHANGED <<murls, idx, all_results>>
    /\ UNCHANGED <<unitvars, cfgvars, fs, served, genvars, exvars>>

(* Lines 279-287: fetch_with_config(..)? has returned; the page is extracted. *)
main_fetched ==
    /\ mpc = "fetch"
    /\ fcaller = "main"
    /\ fetch_return
    /\ IF FetchFatal(fresult)
       THEN /\ mpc' = "failed"
            /\ mresult' = Err(fresult.err)
            /\ mlog' = Append(mlog, MainEvent("failed", furl, NoText))
            /\ UNCHANGED <<idx, all_results>>
       ELSE IF populate_panics(fresult.text, data_config)
       THEN /\ mpc' = "panicked"
            /\ mlog' = Append(mlog, MainEvent("panicked", furl, fresult.text))
            /\ UNCHANGED <<idx, all_results, mresult>>
       ELSE /\ mpc' = "loop"
            /\ all_results' = Append(all_results, populate_values(fresult.text, data_config))
            /\ idx' = idx + 1
            /\ mlog' = Append(mlog, MainEvent("extracted", furl, fresult.text))
            /\ mresult' = mresult
    /\ UNCHANGED <<murls, output>>
    /\ UNCHANGED <<unitvars, cfgvars, fs, served, genvars, exvars>>

-----------------------------------------------------------------------------
(* The fetch orchestrator on its own: a caller fetches urls one call after   *)
(* another, against a network and a file system that may fail.               *)

MaxRetries == 2

DefaultTimeout == 30

UrlA == <<"h", "t", "t", "p", ":", "/", "/", "x", "/", "a">>

UrlB == <<"h", "t", "t", "p", ":", "/", "/", "x", "/", "b">>

FetchUrls == {UrlA, UrlB}

BodyA == <<Elem("h1", <<>>, <<TextNode(<<"a">>)>>)>>

BodyB == <<Elem("h1", <<>>, <<TextNode(<<"b">>)>>), Elem("p", <<>>, <<>>)>>

Bodies == {BodyA, BodyB}

TransportError(e) == [kind |-> "error", err |-> e, status |-> 0, body |-> NoText, decodable |-> FALSE]

Response(status, body, decodable) ==
    [kind |-> "response", err |-> "", status |-> status, body |-> body, decodable |-> decodable]

(* A page a server answers with: an HTTP status and a body. *)
Page(status, body) == [status |-> status, body |-> body]

(* The pages the web may answer a GET of url with. *)
PagesAt(url) == IF url \in DOMAIN site.known THEN site.known[url] ELSE site.other

(* What request.send() and response.text() can do: a transport error, or a    *)
(* response of any status whose body decodes or does not.                     *)
Outcomes(url) ==
    {TransportError(e) : e \in {"timeout", "connect"}}
    \cup {Response(pg.status, pg.body, TRUE) : pg \in PagesAt(url)}
    \cup {Response(200, NoText, FALSE)}

(* A web that may answer every url with any status and any of the bodies. *)
AnyWeb == [known |-> EmptyMap, other |-> {Page(st, b) : st \in {200, 404}, b \in Bodies}]

StoreOutcomes == {"ok", "create_dir_all", "create", "write_all"}

FetchConfigs ==
    [url : {Some(UrlA)}, urls : {None}, headers : {None, Some(<<<<"User-Agent", "krk">>>>)},
     timeout : {DefaultTimeout}, retries : 0..MaxRetries, delay : {0},
     proxy : {None, Some("http://proxy:8080"), Some("proxy:::")},
     cache_dir : {None, Some(".cache")}, use_cache : BOOLEAN, pagination : {None}]

(* A configuration with every default. *)
PlainConfig ==
    [url |-> Some(UrlA), urls |-> None, headers |-> None, timeout |-> DefaultTimeout,
     retries |-> 0, delay |-> 0, proxy |-> None, cache_dir |-> None, use_cache |-> FALSE,
     pagination |-> None]

(* A cache directory may hold files of earlier runs. *)
InitialCaches(cfg) ==
    IF IsSome(cfg.cache_dir)
    THEN {EmptyMap, (get_cache_path(UrlA, Unwrap(cfg.cache_dir)) :> BodyB)}
    ELSE {EmptyMap}

FetchIdle ==
    /\ fpc = "idle"
    /\ fcaller = "nobody"
    /\ furl = <<>>
    /\ client = NoClient
    /\ attempts = 0
    /\ html = NoText
    /\ fresult = NoResult
    /\ netlog = <<>>
    /\ iofault = "none"
    /\ cached = None

(* generate_paginated_urls is not running. *)
GenIdle ==
    /\ gpc = "idle"
    /\ base_url = <<>>
    /\ urls = <<>>
    /\ page_num = 0
    /\ current_url = <<>>
    /\ page_count = 0
    /\ gresult = NoResult
    /\ upages = <<>>
    /\ probelog = <<>>
    /\ gfetches = 0
    /\ pauses = 0

(* Nothing has been extracted. *)
ExIdle ==
    /\ data = EmptyMap
    /\ verdict = None

(* main is not running. *)
MainIdle ==
    /\ mpc = "idle"
    /\ murls = <<>>
    /\ idx = 0
    /\ all_results = <<>>
    /\ output = None
    /\ mresult = NoResult
    /\ mlog = <<>>

(* No function is applied on its own. *)
UnitIdle ==
    /\ doc = <<>>
    /\ xpc = "idle"
    /\ arg = <<>>
    /\ ret = <<>>
    /\ pending = <<>>

DefaultEnv == [overflow_checks |-> FALSE, log_info |-> FALSE]

InitFetch ==
    /\ config \in FetchConfigs
    /\ data_config = EmptyMap
    /\ env = DefaultEnv
    /\ site = AnyWeb
    /\ fs \in InitialCaches(config)
    /\ served = EmptyMap
    /\ FetchIdle
    /\ GenIdle
    /\ MainIdle
    /\ UnitIdle
    /\ ExIdle

DriverCall ==
    /\ \E url \in FetchUrls : fetch_call(url, "driver")
    /\ UNCHANGED <<mainvars, unitvars>>
    /\ UNCHANGED <<cfgvars, genvars, exvars, fs, served>>

(* The text a url's first successful network fetch returned, with the cache in use. *)
DriverReturn ==
    /\ fcaller = "driver"
    /\ fetch_return
    /\ served' = IF /\ fresult.ok /\ attempts > 0 /\ furl \notin DOMAIN served
                    /\ config.use_cache /\ IsSome(config.cache_dir)
                 THEN (furl :> fresult.text) @@ served
                 ELSE served
    /\ UNCHANGED <<mainvars, unitvars>>
    /\ UNCHANGED <<cfgvars, genvars, exvars, fs>>

CheckCache == \E read_ok \in BOOLEAN : fetch_check_cache(read_ok)

BuildClient == fetch_build_client

Send == \E outcome \in Outcomes(furl) : fetch_send(outcome)

RetrySleep == fetch_retry_sleep

Store == \E how \in StoreOutcomes : fetch_store(how)

NextFetch ==
    \/ DriverCall
    \/ CheckCache
    \/ BuildClient
    \/ Send
    \/ RetrySleep
    \/ Store
    \/ DriverReturn

SpecFetch == InitFetch /\ [][NextFetch]_vars

-----------------------------------------------------------------------------
(* Properties of fetch_with_config *)

IsSend(e) == e.ev = "send"

IsSleep(e) == e.ev = "sleep"

NumSends == Len(SelectSeq(netlog, IsSend))

NumSleeps == Len(SelectSeq(netlog, IsSleep))

LastEvent == netlog[Len(netlog)]

CachePathOf(url) == [dir |-> Unwrap(config.cache_dir), file |-> <<"sha256:">> \o url \o <<".html">>]

(* C1: a fetch that reaches the retry loop makes at most retries+1 HTTP      *)
(* attempts, none after an attempt that succeeded; it stops on transport     *)
(* failures only after retries+1 of them and then returns the last attempt's *)
(* error; and when it returns a text, that is the body of the first (and     *)
(* only) successful attempt, which it does return unless decoding the body   *)
(* or writing the cache file fails.                                          *)
C1_RetryUntilSuccessOrExhausted ==
    /\ attempts = NumSends
    /\ attempts <= config.retries + 1
    /\ \A i \in 1..Len(netlog) :
          (IsSend(netlog[i]) /\ netlog[i].res = "response") => i = Len(netlog)
    /\ (fpc = "done" /\ client.built) =>
          /\ attempts >= 1
          /\ IF LastEvent.res = "response"
             THEN /\ fresult.ok => fresult.text = LastEvent.body
                  /\ (LastEvent.decodable /\ iofault = "none") => fresult = Ok(LastEvent.body)
             ELSE /\ attempts = config.retries + 1
                  /\ fresult = Err(LastEvent.err)

(* Witness of C1: retries = 2, two failed attempts with different errors,    *)
(* then a third that succeeds and whose body is returned.                    *)
C1_Witness ==
    /\ fpc = "done" /\ config.retries = 2 /\ attempts = 3 /\ Len(netlog) = 5
    /\ netlog[1].err = "timeout" /\ netlog[3].err = "connect"
    /\ fresult = Ok(BodyA)

(* C2: retry sleeps of one second happen exactly between consecutive         *)
(* attempts: every sleep directly follows a failed attempt and is directly   *)
(* followed by the next attempt, the history of a finished fetch never ends  *)
(* with a sleep, and a fetch that made k >= 1 attempts slept k-1 times.      *)
C2_SleepOnlyBetweenAttempts ==
    /\ \A i \in 1..Len(netlog) :
          IsSleep(netlog[i]) =>
              /\ netlog[i].secs = 1
              /\ i > 1 /\ IsSend(netlog[i-1]) /\ netlog[i-1].res = "error"
              /\ IF i < Len(netlog) THEN IsSend(netlog[i+1]) ELSE fpc = "send"
    /\ \A i \in 1..(Len(netlog) - 1) : IsSend(netlog[i]) => IsSleep(netlog[i+1])
    /\ (fpc = "done" /\ netlog # <<>>) => (IsSend(LastEvent) /\ NumSleeps = attempts - 1)
    /\ fpc = "sleep" => (IsSend(LastEvent) /\ LastEvent.res = "error")

(* Witness of C2: three attempts, two sleeps, the last attempt a success.    *)
C2_Witness ==
    /\ fpc = "done" /\ attempts = 3 /\ NumSleeps = 2
    /\ LastEvent.res = "response" /\ fresult.ok

(* C3: with use_cache set, a cache_dir configured and the url's cache file   *)
(* present when fetch_with_config is called, the call makes no HTTP attempt  *)
(* and no retry sleep and builds no client, whatever retries, timeout, proxy *)
(* and headers are, and returns the file's contents (or, when reading the    *)
(* file fails, the read error).                                              *)
C3_CacheHitBypassesNetwork ==
    (fpc # "idle" /\ config.use_cache /\ IsSome(config.cache_dir) /\ IsSome(cached)) =>
        /\ fpc \in {"cache", "done"}
        /\ attempts = 0 /\ netlog = <<>> /\ ~client.built
        /\ fpc = "done" =>
              IF iofault = "read" THEN ~fresult.ok ELSE fresult = Ok(Unwrap(cached))

(* Witness of C3: a hit returned with retries, a proxy the client could not  *)
(* be built with, and headers configured.                                    *)
C3_Witness ==
    /\ fpc = "done" /\ config.use_cache /\ IsSome(config.cache_dir) /\ IsSome(cached)
    /\ config.retries = 2 /\ config.proxy = Some("proxy:::") /\ IsSome(config.headers)
    /\ fresult = Ok(Unwrap(cached)) /\ attempts = 0

(* C4: once a fetch of url u has succeeded over the network with use_cache   *)
(* set and a cache_dir configured, every later fetch of u in the run makes   *)
(* no HTTP attempt and returns the text that first fetch returned (or the    *)
(* read error when reading the file fails), whatever other urls were fetched *)
(* and whatever the server would answer now.                                 *)
C4_CacheRoundTrip ==
    (fpc # "idle" /\ furl \in DOMAIN served) =>
        /\ attempts = 0 /\ netlog = <<>>
        /\ fpc = "done" =>
              IF iofault = "read" THEN ~fresult.ok ELSE fresult = Ok(served[furl])

(* Witness of C4: both urls were fetched over the network with different     *)
(* texts, and a later fetch of the first returns its own text again.         *)
C4_Witness ==
    /\ fpc = "done" /\ furl = UrlA /\ DOMAIN served = {UrlA, UrlB}
    /\ served[UrlA] = BodyA /\ served[UrlB] = BodyB
    /\ fresult = Ok(BodyA) /\ attempts = 0

(* C26: with a cache_dir and use_cache false no call is answered from the    *)
(* cache and every call that returns a text has made a request and has       *)
(* written that text to the url's cache file, over what the file held; a     *)
(* decoded response is followed by the write or by the error of the write.   *)
(* With use_cache true and no cache_dir nothing is read or written.          *)
C26_CacheWriteNeedsOnlyDir ==
    LET last == netlog[Len(netlog)]
        decoded == /\ netlog # <<>>
                   /\ last.ev = "send" /\ last.res = "response" /\ last.decodable
    IN  /\ (IsSome(config.cache_dir) /\ ~config.use_cache) =>
              /\ iofault # "read"
              /\ (fpc = "done" /\ fresult.ok) =>
                    /\ attempts >= 1
                    /\ decoded
                    /\ fresult.text = last.body
                    /\ get_cache_path(furl, config.cache_dir[1]) \in DOMAIN fs
                    /\ fs[get_cache_path(furl, config.cache_dir[1])] = last.body
              /\ (fpc = "done" /\ ~fresult.ok) =>
                    \/ fresult.err = "proxy"
                    \/ attempts >= 1
              /\ (fpc \in {"store", "done"} /\ decoded) =>
                    \/ fpc = "store"
                    \/ fresult.ok
                    \/ iofault \in {"create_dir_all", "create", "write_all"}
        /\ (config.cache_dir = None /\ config.use_cache) =>
              /\ fs = EmptyMap
              /\ iofault = "none"
              /\ cached = None
              /\ fpc # "store"
              /\ (fpc = "done" /\ fresult.ok) => attempts >= 1 /\ decoded

(* Witness of C26: with use_cache false the file an earlier run left for the *)
(* url was not read: a request was made and its text replaced the file's.    *)
C26_Witness ==
    /\ IsSome(config.cache_dir) /\ ~config.use_cache
    /\ fpc = "done" /\ furl = UrlA
    /\ cached = Some(BodyB)
    /\ attempts = 1
    /\ fresult = Ok(BodyA)
    /\ fs[get_cache_path(UrlA, config.cache_dir[1])] = BodyA

(* C5: when a network fetch returns a text with use_cache set and a          *)
(* cache_dir configured, the cache file of the url holds exactly that text;  *)
(* a failed cache read or cache write makes the fetch return an error: a     *)
(* failed read is not followed by any HTTP attempt, a failed write by no     *)
(* further attempt.                                                          *)
C5_CacheIOIsFatal ==
    fpc = "done" =>
        /\ (fresult.ok /\ attempts > 0 /\ config.use_cache /\ IsSome(config.cache_dir)) =>
              /\ CachePathOf(furl) \in DOMAIN fs
              /\ fs[CachePathOf(furl)] = fresult.text
        /\ iofault # "none" => ~fresult.ok
        /\ iofault = "read" => (attempts = 0 /\ netlog = <<>> /\ fresult.err = "failed to read cache")
        /\ iofault \in {"create_dir_all", "create", "write_all"} =>
              (IsSend(LastEvent) /\ LastEvent.res = "response" /\ LastEvent.decodable)

(* Witness of C5: the first attempt succeeds with retries left, writing the  *)
(* cache file fails, and the fetch ends with an error.                       *)
C5_Witness ==
    /\ fpc = "done" /\ iofault = "write_all" /\ config.use_cache /\ config.retries = 2
    /\ attempts = 1 /\ ~fresult.ok

(* C6: only a transport failure of send is followed by another attempt: a    *)
(* response of any HTTP status ends the attempts and, when its body decodes  *)
(* and no cache write fails, its body is the result; a response whose body   *)
(* does not decode ends the fetch at once with an error, retries left or not.*)
C6_OnlyTransportFailuresRetried ==
    /\ \A i \in 1..(Len(netlog) - 1) : IsSend(netlog[i]) => netlog[i].res = "error"
    /\ (netlog # <<>> /\ LastEvent.res = "response") =>
          /\ fpc \in {"store", "done"}
          /\ ~LastEvent.decodable => (fpc = "done" /\ fresult = Err("can't get url content"))
          /\ (fpc = "done" /\ LastEvent.decodable /\ iofault = "none") =>
                fresult = Ok(LastEvent.body)

(* Witness of C6: with retries = 2 a 404 response to the first attempt is    *)
(* returned as the text after that single attempt.                           *)
C6_Witness ==
    /\ fpc = "done" /\ config.retries = 2 /\ attempts = 1
    /\ LastEvent.status = 404 /\ fresult = Ok(BodyB)

-----------------------------------------------------------------------------
(* The emptiness check on its own: is_empty_result applied to a ReturnedData *)
(* of up to MaxFields fields.                                                *)

MaxFields == 2

FieldNames == {"f1", "f2", "f3"}

SomeTree == ("title" :> StringItem(<<"T">>))

BlankTree == ("title" :> StringItem(<<>>))

ItemValues ==
    {StringItem(<<>>), StringItem(<<" ">>), StringItem(<<"x">>),
     NumberItem(0), NumberItem(42), BoolItem(FALSE), BoolItem(TRUE),
     DataItems(<<>>), DataItems(<<EmptyMap>>), DataItems(<<BlankTree>>),
     DataItems(<<SomeTree, BlankTree>>)}

Trees ==
    UNION {[names -> ItemValues] :
              names \in {ns \in SUBSET FieldNames : Cardinality(ns) <= MaxFields}}

InitEmpty ==
    /\ config = PlainConfig
    /\ data_config = EmptyMap
    /\ env = DefaultEnv
    /\ site = AnyWeb
    /\ fs = EmptyMap
    /\ served = EmptyMap
    /\ FetchIdle
    /\ GenIdle
    /\ MainIdle
    /\ UnitIdle
    /\ data \in Trees
    /\ verdict = None

JudgeEmpty ==
    /\ verdict = None
    /\ verdict' = Some(is_empty_result(data))
    /\ UNCHANGED <<mainvars, unitvars>>
    /\ UNCHANGED <<cfgvars, fs, fetchvars, served, genvars, data>>

NextEmpty == JudgeEmpty

SpecEmpty == InitEmpty /\ [][NextEmpty]_vars

(* C10: is_empty_result is true exactly when the tree has no fields or every *)
(* field is an empty text or an empty list: any number, any boolean, any     *)
(* non-empty text and any non-empty list makes it false.                     *)
C10_EmptyIffNoContent ==
    IsSome(verdict) =>
        (Unwrap(verdict) <=>
            \/ DOMAIN data = {}
            \/ \A name \in DOMAIN data :
                  \/ data[name].kind = "StringItem" /\ Len(data[name].s) = 0
                  \/ data[name].kind = "DataItems" /\ Len(data[name].items) = 0)

(* Witness of C10: a tree of an empty text and the number 0 is judged not    *)
(* empty.                                                                    *)
C10_Witness ==
    /\ DOMAIN data = {"f1", "f2"}
    /\ data["f1"] = StringItem(<<>>) /\ data["f2"] = NumberItem(0)
    /\ verdict = Some(FALSE)

-----------------------------------------------------------------------------
(* The pattern strategy of generate_paginated_urls, with the fetches and the *)
(* extractions its stop-on-empty check makes.                                *)

MaxStartPage == 2

MaxEndPage == 3

MaxPagesLimit == 2

PagePatterns == {<<"?", "p", "=", "{", "p", "a", "g", "e", "}">>, <<"h", "t", "t", "p", ":", "/", "/", "y", "/", "{", "p", "a", "g", "e", "}">>, <<"/", "a", "l", "l">>}

TitleSchema == ("title" :> ItemConfig("h1"))

ListSchema == ("items" :> [ItemConfig("li") EXCEPT !.data = Some(("name" :> ItemConfig("span")))])

(* A nested selector that does not parse. *)
BadSchema == ("items" :> [ItemConfig("li") EXCEPT !.data = Some(("name" :> ItemConfig("span[")))])

(* Pages: one with a title and a list entry, one whose title is blank, and   *)
(* the body of an error status.                                              *)
FullPage ==
    <<Elem("h1", <<>>, <<TextNode(<<"a">>)>>),
      Elem("li", <<>>, <<Elem("span", <<>>, <<TextNode(<<"b">>)>>)>>)>>

BlankPage == <<Elem("h1", <<>>, <<TextNode(<<" ">>)>>)>>

ErrorPage == <<Elem("p", <<>>, <<TextNode(<<"n", "o">>)>>)>>

PatternWeb ==
    [known |-> EmptyMap,
     other |-> {Page(200, FullPage), Page(200, BlankPage), Page(404, ErrorPage)}]

Envs == [overflow_checks : BOOLEAN, log_info : BOOLEAN]

PatternPaginations ==
    [next_selector : {None, Some("a.next")}, page_pattern : {Some(pt) : pt \in PagePatterns},
     start_page : 0..MaxStartPage, max_pages : 0..MaxPagesLimit,
     end_page : {None} \cup {Some(n) : n \in 0..MaxEndPage}, stop_on_empty : BOOLEAN]

(* The runs of the pattern strategy: every page range without stop_on_empty, *)
(* and with it the ranges of up to three pages under retries and a cache and *)
(* the longer ranges with neither.                                           *)
PatternSetups ==
    {[config |-> [PlainConfig EXCEPT !.pagination = Some(pg)], data_config |-> TitleSchema,
      env |-> e] :
        pg \in {q \in PatternPaginations : ~q.stop_on_empty}, e \in Envs}
    \cup
    {[config |-> [PlainConfig EXCEPT !.pagination = Some(pg), !.retries = r,
                                     !.cache_dir = cd, !.use_cache = IsSome(cd)],
      data_config |-> sch, env |-> e] :
        pg \in {q \in PatternPaginations :
                   /\ q.stop_on_empty /\ q.next_selector = None
                   /\ PatternEnd(q) - q.start_page <= 2},
        r \in 0..1, cd \in {None, Some(".cache")}, sch \in {TitleSchema, ListSchema, BadSchema},
        e \in {DefaultEnv, [overflow_checks |-> TRUE, log_info |-> TRUE]}}
    \cup
    {[config |-> [PlainConfig EXCEPT !.pagination = Some(pg)], data_config |-> TitleSchema,
      env |-> DefaultEnv] :
        pg \in {q \in PatternPaginations :
                   /\ q.stop_on_empty /\ q.next_selector = None
                   /\ PatternEnd(q) - q.start_page > 2}}

InitPattern ==
    /\ \E setup \in PatternSetups :
          /\ config = setup.config
          /\ data_config = setup.data_config
          /\ env = setup.env
    /\ site = PatternWeb
    /\ fs = EmptyMap
    /\ served = EmptyMap
    /\ FetchIdle
    /\ GenIdle
    /\ MainIdle
    /\ UnitIdle
    /\ ExIdle

(* main, lines 244-258: the single configured url is the base url. *)
Paginate == gen_call(Unwrap(config.url)) /\ UNCHANGED mainvars

NextPattern ==
    \/ Paginate
    \/ gen_start
    \/ gen_pattern_page
    \/ gen_pattern_probed
    \/ CheckCache
    \/ BuildClient
    \/ Send
    \/ RetrySleep
    \/ Store

SpecPattern == InitPattern /\ [][NextPattern]_vars

(* The pattern strategy is running or has ended. *)
PatternRun ==
    /\ IsSome(config.pagination)
    /\ IsSome(Unwrap(config.pagination).page_pattern)
    /\ gpc \notin {"idle", "start"}

(* The urls of the pages first..last, in order. *)
PageUrls(first, last) ==
    [i \in 1..(IF last < first THEN 0 ELSE last - first + 1) |->
        PatternUrl(base_url, Unwrap(Unwrap(config.pagination).page_pattern), first + i - 1)]

(* C7: without stopOnEmpty the pattern strategy returns exactly one url per   *)
(* page number from startPage up to end in ascending order, none when end is *)
(* below startPage, where end is endPage if given, else                      *)
(* startPage + maxPages - 1 if maxPages > 0, else startPage + 9.             *)
C7_OneUrlPerPageOfTheRange ==
    LET pg == Unwrap(config.pagination)
        last == IF IsSome(pg.end_page) THEN Unwrap(pg.end_page)
                ELSE IF pg.max_pages > 0 THEN pg.start_page + pg.max_pages - 1
                ELSE pg.start_page + 9
    IN  (PatternRun /\ ~pg.stop_on_empty /\ gpc \in {"returned", "panicked"}) =>
            /\ gpc = "returned"
            /\ gresult = GenOk(PageUrls(pg.start_page, last))
            /\ upages = [i \in 1..Len(urls) |-> pg.start_page + i - 1]

C28_ProbeFailureIsNotFatal ==
    (PatternRun /\ Pagination.stop_on_empty) =>
        /\ \A k \in 1..Len(probelog) :
              ~probelog[k].ok =>
                  /\ ~probelog[k].judged
                  /\ ~probelog[k].empty
                  /\ \E i \in 1..Len(upages) :
                        upages[i] = probelog[k].page /\ urls[i] = probelog[k].url
                  /\ k < Len(probelog) => probelog[k + 1].page = probelog[k].page + 1
                  /\ k = Len(probelog) =>
                        /\ gpc \in {"pattern", "probe", "returned"}
                        /\ gpc \in {"pattern", "probe"} => page_num = probelog[k].page + 1
                        /\ gpc = "returned" => probelog[k].page >= PatternEnd(Pagination)
        /\ gresult.err \in {"", "pending"}
        /\ gpc = "returned" => gresult = GenOk(urls)

(* Witness of C28: every probe failed after its retry, and the whole range   *)
(* of three pages was returned.                                              *)
C28_Witness ==
    /\ PatternRun /\ Pagination.stop_on_empty
    /\ config.retries = 1
    /\ gpc = "returned"
    /\ Len(urls) = 3
    /\ Len(probelog) = 2
    /\ ~probelog[1].ok /\ ~probelog[2].ok
    /\ gresult = GenOk(urls)

-----------------------------------------------------------------------------
(* The next-link strategy of generate_paginated_urls, with the fetches it    *)
(* makes.                                                                    *)

MaxNextPages == 3

(* A page with a title and a next link. *)
LinkPage(title, href) ==
    <<Elem("h1", <<>>, <<TextNode(title)>>),
      Elem("a", <<<<"class", <<"n", "e", "x", "t">>>>, <<"href", href>>>>, <<TextNode(<<"n">>)>>)>>

(* A page whose next link has no href. *)
NoHrefPage ==
    <<Elem("h1", <<>>, <<TextNode(<<"a">>)>>),
      Elem("a", <<<<"class", <<"n", "e", "x", "t">>>>>>, <<TextNode(<<"n">>)>>)>>

(* A page whose first next link has no href and whose second one has. *)
LateHrefPage ==
    <<Elem("h1", <<>>, <<TextNode(<<"a">>)>>),
      Elem("a", <<<<"class", <<"n", "e", "x", "t">>>>>>, <<TextNode(<<"n">>)>>),
      Elem("a", <<<<"class", <<"n", "e", "x", "t">>>>, <<"href", <<"/", "b">>>>>>, <<TextNode(<<"m">>)>>)>>

(* A web that may answer every url with a page linking on by an absolute, a  *)
(* rooted or a relative href, with a blank page that links on, or with a     *)
(* page that does not link on.                                               *)
NextWeb ==
    [known |-> EmptyMap,
     other |-> {Page(200, LinkPage(<<"a">>, <<"h", "t", "t", "p", ":", "/", "/", "x", "/", "b">>)),
                Page(200, LinkPage(<<"a">>, <<"/", "a">>)),
                Page(200, LinkPage(<<"a">>, <<"c">>)),
                Page(200, LinkPage(<<>>, <<"/", "b">>)),
                Page(200, NoHrefPage),
                Page(200, LateHrefPage),
                Page(200, FullPage)}]

(* Two pages whose next links form a cycle. *)
CycleWeb ==
    [known |-> (UrlA :> {Page(200, LinkPage(<<"a">>, <<"/", "b">>))})
               @@ (UrlB :> {Page(200, LinkPage(<<"b">>, <<"a">>))}),
     other |-> {Page(404, ErrorPage)}]

NextPaginations ==
    [next_selector : {None, Some("a.next"), Some("a[")}, page_pattern : {None},
     start_page : {1}, max_pages : 1..MaxNextPages, end_page : {None},
     stop_on_empty : BOOLEAN]

(* The runs of the next-link strategy: short ones on a web of every kind of  *)
(* page, and the ones on the cycle, where only the bound ends the loop.      *)
NextSetups ==
    {[config |-> [PlainConfig EXCEPT !.pagination = Some(pg), !.retries = r, !.delay = d,
                                     !.cache_dir = cd, !.use_cache = IsSome(cd)],
      data_config |-> sch, site |-> NextWeb] :
        pg \in NextPaginations, r \in 0..1, d \in {0, 50}, cd \in {None, Some(".cache")},
        sch \in {TitleSchema, BadSchema}}
    \cup
    {[config |-> [PlainConfig EXCEPT !.pagination =
                      Some([next_selector |-> Some("a.next"), page_pattern |-> None,
                            start_page |-> 1, max_pages |-> m, end_page |-> None,
                            stop_on_empty |-> soe])],
      data_config |-> TitleSchema, site |-> CycleWeb] :
        m \in 0..MaxNextPages, soe \in BOOLEAN}

InitNext ==
    /\ \E setup \in NextSetups :
          /\ config = setup.config
          /\ data_config = setup.data_config
          /\ site = setup.site
    /\ env = DefaultEnv
    /\ fs = EmptyMap
    /\ served = EmptyMap
    /\ FetchIdle
    /\ GenIdle
    /\ MainIdle
    /\ UnitIdle
    /\ ExIdle

NextNext ==
    \/ Paginate
    \/ gen_start
    \/ gen_next_loop
    \/ gen_next_fetched
    \/ CheckCache
    \/ BuildClient
    \/ Send
    \/ RetrySleep
    \/ Store

SpecNext == InitNext /\ [][NextNext]_vars

(* The next-link strategy is running or has ended. *)
NextRun ==
    /\ IsSome(config.pagination)
    /\ Unwrap(config.pagination).page_pattern = None
    /\ IsSome(Unwrap(config.pagination).next_selector)
    /\ gpc \notin {"idle", "start"}

InitFollow ==
    /\ InitNext
    /\ Pagination.max_pages > 0

SpecFollow == InitFollow /\ [][NextNext]_vars

(* The first element of the page that matches the configured next selector, *)
(* in document order.                                                        *)
FirstNext(page) ==
    LET sel == SelectorParse(config.pagination[1].next_selector[1])
        matching == SelectSeq(Descendants(page), LAMBDA n : Matches(sel, n))
    IN  IF matching = <<>> THEN None ELSE Some(matching[1])

(* The page has no element matching the next selector, or the first one has  *)
(* no href.                                                                  *)
NoNextLink(page) ==
    \/ FirstNext(page) = None
    \/ attr(FirstNext(page)[1], "href") = None

(* C20: each url after the first is the resolved href of the first element   *)
(* matching nextSelector on the page fetched from the url before it, and the *)
(* generation ends with the urls collected so far at the first fetched page  *)
(* without a matching element or whose first matching element has no href,   *)
(* also when a later matching element has one.                               *)
C20_NextLinkFollowsFirstMatch ==
    (NextRun /\ SelectorParse(config.pagination[1].next_selector[1]).ok) =>
        /\ \A i \in 2..Len(urls) :
              /\ Len(probelog) >= i - 1
              /\ probelog[i - 1].ok
              /\ probelog[i - 1].url = urls[i - 1]
              /\ ~NoNextLink(probelog[i - 1].text)
              /\ urls[i] = ResolveHref(urls[i - 1],
                                       attr(FirstNext(probelog[i - 1].text)[1], "href")[1])
        /\ \A k \in 1..Len(probelog) :
              (probelog[k].ok /\ NoNextLink(probelog[k].text)) =>
                  /\ k = Len(probelog)
                  /\ Len(urls) = k
                  /\ probelog[k].url = urls[k]
                  /\ gpc \in {"returned", "panicked"}
                  /\ gpc = "returned" => gresult = GenOk(urls)
                  /\ gpc = "panicked" => Pagination.stop_on_empty /\ HasMalformed(data_config)

(* Witness of C20: the second page fetched has a first next link without an  *)
(* href and a second one with an href; the run ended there with two urls.    *)
C20_Witness ==
    /\ NextRun
    /\ gpc = "returned"
    /\ gresult = GenOk(urls)
    /\ Len(urls) = 2
    /\ urls[2] = ResolveHref(urls[1], <<"c">>)
    /\ Len(probelog) = 2
    /\ probelog[2].text = LateHrefPage

(* The runs of the next-link strategy whose fetches make one attempt and use *)
(* no cache, and the runs of one fetch with a retry and a cache.             *)
InitFollowFair ==
    /\ InitFollow
    /\ \/ config.retries = 0 /\ config.cache_dir = None
       \/ /\ Pagination.max_pages = 2 /\ ~Pagination.stop_on_empty
          /\ config.delay = 0 /\ data_config = TitleSchema

(* The next-link strategy where every step that can be taken is taken: each *)
(* fetch returns.                                                            *)
SpecFollowFair == InitFollowFair /\ [][NextNext]_vars /\ WF_vars(NextNext)

(* generate_paginated_urls has returned or panicked. *)
GenEnded == gpc \in {"returned", "panicked"}

C21_NextStopsAtEmptyPage ==
    (NextRun /\ Pagination.stop_on_empty) =>
        \A k \in 1..Len(probelog) :
            ( /\ probelog[k].ok
              /\ ~populate_panics(probelog[k].text, data_config)
              /\ \A name \in DOMAIN data_config :
                    LET item == populate_values(probelog[k].text, data_config)[name]
                    IN  \/ item.kind = "StringItem" /\ item.s = <<>>
                        \/ item.kind = "DataItems" /\ item.items = <<>> )
            => /\ k = Len(probelog)
               /\ gpc = "returned"
               /\ gresult = GenOk(urls)
               /\ Len(urls) = k
               /\ urls[Len(urls)] = probelog[k].url
               /\ gfetches = k

(* Witness of C21: the second page fetched has a blank title and a next link *)
(* with an href; the run ended there, its url the last of two.               *)
C21_Witness ==
    /\ NextRun /\ Pagination.stop_on_empty
    /\ Pagination.max_pages = 3
    /\ gpc = "returned"
    /\ Len(probelog) = 2
    /\ probelog[2].text = LinkPage(<<>>, <<"/", "b">>)
    /\ probelog[2].empty
    /\ gresult = GenOk(<<UrlA, ResolveHref(UrlA, <<"c">>)>>)

-----------------------------------------------------------------------------
(* The tree extractor on its own: populate_values applied to a parsed page   *)
(* and a schema of up to MaxFields fields.                                   *)

(* A page with a title, a list of two entries and a next link. *)
ListPage ==
    <<Elem("h1", <<>>, <<TextNode(<<" ", "T", " ">>)>>),
      Elem("ul", <<>>,
           <<Elem("li", <<>>, <<Elem("span", <<>>, <<TextNode(<<"a">>)>>)>>),
             Elem("li", <<>>, <<Elem("b", <<>>, <<TextNode(<<"9", "9", ".", "9", "9">>)>>)>>)>>),
      Elem("a", <<<<"class", <<"n", "e", "x", "t">>>>, <<"href", <<"/", "b">>>>>>, <<TextNode(<<"n">>)>>)>>

ExtractDocs == {<<>>, BlankPage, FullPage, ListPage}

NameSchema == ("name" :> ItemConfig("span"))

(* Scalar fields: plain, with a default, with an attribute, with an index,   *)
(* with transformations and coercions, with a regex that does not compile.  *)
ScalarItems ==
    {ItemConfig("h1"),
     [ItemConfig("h1") EXCEPT !.trim = FALSE, !.uppercase = TRUE],
     [ItemConfig("p") EXCEPT !.default = Some(<<" ", "7", " ">>), !.to_number = TRUE],
     [ItemConfig("p") EXCEPT !.default = Some(<<"y", "e", "s">>), !.to_boolean = TRUE],
     [ItemConfig("li") EXCEPT !.nth = 1, !.strip_html = TRUE, !.to_number = TRUE],
     [ItemConfig("li") EXCEPT !.nth = 2, !.default = Some(<<"n", "o", "n", "e">>), !.regex = Some(RegexUnclosed)],
     [ItemConfig("a.next") EXCEPT !.attr = Some("href")],
     [ItemConfig("h1") EXCEPT !.attr = Some("href"), !.default = Some(<<"x">>)],
     [ItemConfig("span") EXCEPT !.to_number = TRUE, !.to_boolean = TRUE]}

(* Group fields: plain, with index and attribute set, two levels deep. *)
GroupItems ==
    {[ItemConfig("li") EXCEPT !.data = Some(NameSchema)],
     [ItemConfig("li") EXCEPT !.data = Some(NameSchema), !.nth = 1, !.attr = Some("href"),
                              !.default = Some(<<"x">>)],
     [ItemConfig("ul") EXCEPT !.data = Some(("rows" :> [ItemConfig("li") EXCEPT
                                                          !.data = Some(NameSchema)]))]}

(* Fields with a selector that does not parse: a scalar, a group, a field of *)
(* a group that matches list entries, a field of a group that matches        *)
(* paragraphs.                                                               *)
MalformedItems ==
    {ItemConfig("h1["),
     [ItemConfig("li[") EXCEPT !.data = Some(NameSchema)],
     [ItemConfig("li") EXCEPT !.data = Some(("name" :> ItemConfig("span[")))],
     [ItemConfig("p") EXCEPT !.data = Some(("name" :> ItemConfig("span[")))]}

ExtractSchemas ==
    UNION {[names -> ScalarItems \cup GroupItems \cup MalformedItems] :
              names \in {ns \in SUBSET FieldNames : Cardinality(ns) <= MaxFields}}

InitExtract ==
    /\ config = PlainConfig
    /\ data_config \in ExtractSchemas
    /\ env = DefaultEnv
    /\ site = AnyWeb
    /\ fs = EmptyMap
    /\ served = EmptyMap
    /\ FetchIdle
    /\ GenIdle
    /\ ExIdle
    /\ MainIdle
    /\ doc \in ExtractDocs
    /\ xpc = "idle"
    /\ arg = <<>>
    /\ ret = <<>>
    /\ pending = <<>>

(* populate_values(html, config): returns a ReturnedData or panics. *)
Extract ==
    /\ xpc = "idle"
    /\ IF populate_panics(doc, data_config)
       THEN xpc' = "panicked" /\ data' = data
       ELSE xpc' = "returned" /\ data' = populate_values(doc, data_config)
    /\ UNCHANGED <<cfgvars, fs, fetchvars, served, genvars, verdict, mainvars, doc, arg, ret,
                   pending>>

NextExtract == Extract

SpecExtract == InitExtract /\ [][NextExtract]_vars

(* The tree mirrors the schema on the nodes it was extracted from. *)
RECURSIVE Mirrors(_, _, _)
Mirrors(tree, schema, nodes) ==
    /\ DOMAIN tree = DOMAIN schema
    /\ \A name \in DOMAIN schema :
          LET matched == SelectSeq(Descendants(nodes),
                                   LAMBDA n : Matches(SelectorParse(schema[name].selector), n))
          IN  IF IsSome(schema[name].data)
              THEN /\ tree[name].kind = "DataItems"
                   /\ Len(tree[name].items) = Len(matched)
                   /\ \A i \in 1..Len(matched) :
                         /\ Mirrors(tree[name].items[i], Unwrap(schema[name].data),
                                    <<matched[i]>>)
                         /\ tree[name].items[i]
                               = populate_values(<<matched[i]>>, Unwrap(schema[name].data))
              ELSE tree[name].kind \in {"StringItem", "NumberItem", "BoolItem"}

(* C11: for every page and every schema with valid selectors populate_values *)
(* returns a tree that mirrors the schema recursively: the same field names, *)
(* for a group field a list with one child tree per matched element in       *)
(* document order whatever its index and attribute, for a scalar field a     *)
(* text, a number or a boolean.                                              *)
C11_TreeMirrorsSchema ==
    (xpc # "idle" /\ ~HasMalformed(data_config)) =>
        /\ xpc = "returned"
        /\ Mirrors(data, data_config, doc)

(* Witness of C11: a two-level group and a group with index and attribute    *)
(* set, extracted from the page with two list entries.                      *)
C11_Witness ==
    /\ xpc = "returned" /\ doc = ListPage
    /\ DOMAIN data = {"f1", "f2"}
    /\ data["f1"] = DataItems(<<("rows" :> DataItems(<<("name" :> StringItem(<<"a">>)),
                                                       ("name" :> StringItem(<<>>))>>))>>)
    /\ data_config["f2"].nth = 1 /\ IsSome(data_config["f2"].data)
    /\ data["f2"] = DataItems(<<("name" :> StringItem(<<"a">>)), ("name" :> StringItem(<<>>))>>)

(* C16: extraction with a schema that holds a malformed selector on any     *)
(* field, at any nesting level, aborts whatever the page holds.              *)
C16_MalformedSelectorAborts ==
    (xpc # "idle" /\ HasMalformed(data_config)) => xpc = "panicked"

(* The raw value the scalar field is to have: of the elements the selector   *)
(* matches in document order, the one at the field's index gives its         *)
(* attribute (empty when absent) or its inner markup; with no such element   *)
(* the default, or the empty text.                                           *)
ExpectedRaw(nodes, item) ==
    LET matched == SelectSeq(Descendants(nodes),
                             LAMBDA n : Matches(SelectorParse(item.selector), n))
    IN  IF Len(matched) < item.nth + 1
        THEN IF item.default = None THEN <<>> ELSE item.default[1]
        ELSE IF item.attr = None
             THEN inner_html(matched[item.nth + 1])
             ELSE IF attr(matched[item.nth + 1], item.attr[1]) = None
                  THEN <<>>
                  ELSE attr(matched[item.nth + 1], item.attr[1])[1]

(* C17: when no selector is malformed the extraction returns a tree with     *)
(* every field of the schema, and a scalar field holds the coercion of the   *)
(* transformation of its raw value, which for fewer than index+1 matches is  *)
(* the default (or the empty text) and for a missing attribute the empty     *)
(* text; an invalid regex or an unparseable number leaves the text.          *)
C17_FallbacksNeverFail ==
    (xpc # "idle" /\ ~HasMalformed(data_config)) =>
        /\ xpc = "returned"
        /\ DOMAIN data = DOMAIN data_config
        /\ \A name \in DOMAIN data_config :
              LET item == data_config[name]
                  value == apply_transformations(ExpectedRaw(doc, item), item)
              IN  item.data = None =>
                     /\ data[name] = Convert(value, item)
                     /\ (item.regex = Some(RegexUnclosed) /\ ~item.uppercase /\ ~item.strip_html)
                           => value = trim(ExpectedRaw(doc, item))
                     /\ (item.to_number /\ parse_f64(trim(value)) = None)
                           => data[name] = StringItem(value)

(* Witness of C17: on the page with two list entries a field asking for the  *)
(* third entry, with a regex that does not compile, holds its default, and   *)
(* its sibling asking for an attribute the title lacks holds the empty text, *)
(* not its default.                                                          *)
C17_Witness ==
    /\ xpc = "returned" /\ doc = ListPage
    /\ DOMAIN data_config = {"f1", "f2"}
    /\ data_config["f1"].nth = 2 /\ data_config["f1"].regex = Some(RegexUnclosed)
    /\ data["f1"] = StringItem(<<"n", "o", "n", "e">>)
    /\ data_config["f2"].selector = "h1" /\ data_config["f2"].attr = Some("href")
    /\ data_config["f2"].default = Some(<<"x">>)
    /\ data["f2"] = StringItem(<<>>)

-----------------------------------------------------------------------------
(* The reduce step of populate_values on its own: the mappings computed for  *)
(* the fields are combined two neighbours at a time, in any grouping, and    *)
(* the identity ReturnedData::new() may stand anywhere among them.           *)

MaxParts == 3

PartNames == {"f1", "f2"}

PartValues == {StringItem(<<"x">>), BoolItem(FALSE)}

(* The mappings to combine: the identity, the mappings of one field, and     *)
(* mappings of two fields as earlier steps produce them.                     *)
PartMaps == UNION {[names -> PartValues] : names \in SUBSET PartNames}

RECURSIVE SeqsUpTo(_, _)
SeqsUpTo(S, n) ==
    IF n = 0 THEN {<<>>}
    ELSE SeqsUpTo(S, n - 1)
         \cup {Append(q, x) : q \in {r \in SeqsUpTo(S, n - 1) : Len(r) = n - 1}, x \in S}

InitReduce ==
    /\ config = PlainConfig
    /\ data_config = EmptyMap
    /\ env = DefaultEnv
    /\ site = AnyWeb
    /\ fs = EmptyMap
    /\ served = EmptyMap
    /\ FetchIdle
    /\ GenIdle
    /\ ExIdle
    /\ MainIdle
    /\ doc = <<>>
    /\ xpc = "idle"
    /\ pending \in SeqsUpTo(PartMaps, MaxParts)
    /\ arg = pending
    /\ ret = <<>>

(* One application of the reduce operator to two neighbours. *)
ReduceStep ==
    /\ xpc = "idle"
    /\ \E i \in 1..(Len(pending) - 1) :
          /\ pending' = SubSeq(pending, 1, i - 1)
                        \o <<Merge(pending[i], pending[i + 1])>>
                        \o SubSeq(pending, i + 2, Len(pending))
          /\ ret' = <<[acc |-> pending[i], other |-> pending[i + 1],
                       merged |-> Merge(pending[i], pending[i + 1])]>>
    /\ UNCHANGED <<cfgvars, fs, fetchvars, served, genvars, exvars, mainvars, doc, xpc, arg>>

(* The reduction is complete: of no mapping it is the identity. *)
ReduceDone ==
    /\ xpc = "idle"
    /\ Len(pending) <= 1
    /\ xpc' = "returned"
    /\ data' = IF pending = <<>> THEN EmptyMap ELSE pending[1]
    /\ UNCHANGED <<cfgvars, fs, fetchvars, served, genvars, verdict, mainvars, doc, arg, ret,
                   pending>>

NextReduce == ReduceStep \/ ReduceDone

SpecReduce == InitReduce /\ [][NextReduce]_vars

(* The names of the mappings are pairwise different. *)
UniqueNames(maps) ==
    \A i, j \in 1..Len(maps) : i # j => DOMAIN maps[i] \cap DOMAIN maps[j] = {}

(* C12: the reduce step inserts a name only when the accumulator lacks it    *)
(* and never overwrites a value; so with unique names the result is the same *)
(* tree for every order and every grouping of the fields: every field of     *)
(* every mapping, with its value.                                            *)
C12_ReduceNeverOverwrites ==
    /\ \A i \in 1..Len(ret) :
          /\ DOMAIN ret[i].merged = DOMAIN ret[i].acc \cup DOMAIN ret[i].other
          /\ \A name \in DOMAIN ret[i].acc : ret[i].merged[name] = ret[i].acc[name]
          /\ \A name \in DOMAIN ret[i].other \ DOMAIN ret[i].acc :
                ret[i].merged[name] = ret[i].other[name]
    /\ (xpc = "returned" /\ UniqueNames(arg)) =>
          /\ DOMAIN data = UNION {DOMAIN arg[i] : i \in 1..Len(arg)}
          /\ \A i \in 1..Len(arg) : \A name \in DOMAIN arg[i] : data[name] = arg[i][name]

(* Witness of C12: a step met a name the accumulator already held with a     *)
(* different value, and kept the accumulator's value.                        *)
C12_Witness ==
    /\ ret # <<>>
    /\ "f1" \in DOMAIN ret[1].acc /\ "f1" \in DOMAIN ret[1].other
    /\ ret[1].acc["f1"] = BoolItem(FALSE) /\ ret[1].other["f1"] = StringItem(<<"x">>)
    /\ ret[1].merged["f1"] = BoolItem(FALSE)

-----------------------------------------------------------------------------
(* The transformation pipeline and the type coercion on their own:           *)
(* apply_transformations and the conversion of populate_values applied to a  *)
(* text under every set of options.                                          *)

TransformTexts ==
    {<<>>, <<" ">>, <<" ", "a", "b", " ">>, <<" ", "A", "b", " ">>, <<"x">>,
     <<"<", "s", "t", "r", "o", "n", "g", ">", "P", "r", "i", "c", "e", ":", " ", "$", "9", "9", ".", "9", "9", "<", "/", "s", "t", "r", "o", "n", "g", ">">>, <<" ", "<", "b", ">", " ", "a", "b", " ", "<", "/", "b", ">", " ">>, <<"1", ",", "5">>, <<"1", "2", " ", "3", ".", "4">>,
     <<" ", "T", "R", "U", "E", " ">>, <<"Y", "e", "s">>, <<"o", "n">>, <<"n", "o">>, <<"0">>, <<"1">>, <<" ", "4", "2", " ">>,
     <<"n", "a", "n">>, <<"1", "e", "2">>}

TransformItems ==
    {[ItemConfig("h1") EXCEPT !.trim = t, !.strip_html = sh, !.regex = re, !.replace = rp,
                              !.uppercase = up, !.lowercase = lo, !.to_number = tn,
                              !.to_boolean = tb] :
        t \in BOOLEAN, sh \in BOOLEAN,
        re \in {None, Some(RegexDigits), Some(RegexDecimal), Some(RegexUnclosed)},
        rp \in {None, Some(<<<<",">>, <<".">>>>), Some(<<<<"a">>>>)},
        up \in BOOLEAN, lo \in BOOLEAN, tn \in BOOLEAN, tb \in BOOLEAN}

InitTransform ==
    /\ config = PlainConfig
    /\ data_config = EmptyMap
    /\ env = DefaultEnv
    /\ site = AnyWeb
    /\ fs = EmptyMap
    /\ served = EmptyMap
    /\ FetchIdle
    /\ GenIdle
    /\ ExIdle
    /\ MainIdle
    /\ doc = <<>>
    /\ xpc = "idle"
    /\ arg \in [value : TransformTexts, item : TransformItems]
    /\ ret = <<>>
    /\ pending = <<>>

(* value = apply_transformations(value, &config) *)
Transform ==
    /\ xpc = "idle"
    /\ xpc' = "transformed"
    /\ ret' = <<apply_transformations(arg.value, arg.item)>>
    /\ UNCHANGED <<cfgvars, fs, fetchvars, served, genvars, exvars, mainvars, doc, arg, pending>>

(* apply_transformations applied to its own result. *)
TransformAgain ==
    /\ xpc = "transformed"
    /\ xpc' = "twice"
    /\ ret' = Append(ret, apply_transformations(ret[1], arg.item))
    /\ UNCHANGED <<cfgvars, fs, fetchvars, served, genvars, exvars, mainvars, doc, arg, pending>>

(* Lines 531-545: the transformed value becomes the field's item. *)
Coerce ==
    /\ xpc = "transformed"
    /\ xpc' = "coerced"
    /\ data' = ("value" :> Convert(ret[1], arg.item))
    /\ UNCHANGED <<cfgvars, fs, fetchvars, served, genvars, verdict, mainvars, doc, arg, ret,
                   pending>>

NextTransform == Transform \/ TransformAgain \/ Coerce

SpecTransform == InitTransform /\ [][NextTransform]_vars

(* C13: with coerce-to-number set the item is the number parsed from the     *)
(* trimmed value, or the text unchanged when it does not parse, never a      *)
(* boolean; otherwise with coerce-to-boolean set it is a boolean, true iff   *)
(* the lowercased trimmed value is "true", "1", "yes" or "on"; otherwise it  *)
(* is the text.                                                              *)
C13_Coercion ==
    xpc = "coerced" =>
        LET v == ret[1]
            item == data["value"]
        IN  IF arg.item.to_number
            THEN /\ item.kind # "BoolItem"
                 /\ IF IsSome(parse_f64(trim(v)))
                    THEN item = NumberItem(Unwrap(parse_f64(trim(v))))
                    ELSE item = StringItem(v)
            ELSE IF arg.item.to_boolean
            THEN /\ item.kind = "BoolItem"
                 /\ item.b <=> trim(to_lowercase(v)) \in {<<"t", "r", "u", "e">>, <<"1">>, <<"y", "e", "s">>, <<"o", "n">>}
            ELSE item = StringItem(v)

(* Witness of C13: with both coercions set a text that is no number stays a  *)
(* text, though it spells a true word.                                       *)
C13_Witness ==
    /\ xpc = "coerced"
    /\ arg.item.to_number /\ arg.item.to_boolean
    /\ ret[1] = <<"Y", "e", "s">>
    /\ data["value"] = StringItem(<<"Y", "e", "s">>)

(* C14: the enabled steps apply in the order trim, strip markup, regex       *)
(* extraction (first whole match; unchanged when the pattern is invalid or   *)
(* does not match), find/replace (only for a pair of exactly 2), case fold   *)
(* (upper when both flags are set), each on the result of the one before;    *)
(* strip markup, regex and number coercion turn                              *)
(* '<strong>Price: $99.99</strong>' into 99.99.                              *)
C14_TransformationOrder ==
    LET o == arg.item
        trimmed == IF o.trim THEN TrimEnd(TrimStart(arg.value)) ELSE arg.value
        stripped == IF o.strip_html THEN StripTags(trimmed) ELSE trimmed
        found == IF IsSome(o.regex) /\ Unwrap(o.regex) # RegexUnclosed
                 THEN captures(Unwrap(o.regex), stripped) ELSE None
        extracted == IF IsSome(found) THEN Unwrap(found) ELSE stripped
        replaced == IF IsSome(o.replace) /\ Len(Unwrap(o.replace)) = 2
                    THEN replace(extracted, Unwrap(o.replace)[1], Unwrap(o.replace)[2])
                    ELSE extracted
        folded == IF o.uppercase THEN [i \in 1..Len(replaced) |-> UpperChar(replaced[i])]
                  ELSE IF o.lowercase THEN [i \in 1..Len(replaced) |-> LowerChar(replaced[i])]
                  ELSE replaced
    IN  /\ xpc # "idle" => ret[1] = folded
        /\ ( /\ xpc = "coerced"
             /\ arg.value = <<"<", "s", "t", "r", "o", "n", "g", ">", "P", "r", "i", "c", "e", ":", " ", "$", "9", "9", ".", "9", "9", "<", "/", "s", "t", "r", "o", "n", "g", ">">>
             /\ o.strip_html /\ o.regex = Some(RegexDecimal) /\ o.to_number /\ o.replace = None )
           => data["value"] = NumberItem([mant |-> 9999, scale |-> 2])

(* Witness of C14: trimming came before stripping, so the text inside the    *)
(* markup kept its blanks, and it was then uppercased with both case flags   *)
(* set.                                                                      *)
C14_Witness ==
    /\ xpc = "transformed"
    /\ arg.value = <<" ", "<", "b", ">", " ", "a", "b", " ", "<", "/", "b", ">", " ">>
    /\ arg.item.trim /\ arg.item.strip_html /\ arg.item.uppercase /\ arg.item.lowercase
    /\ ret[1] = <<" ", "A", "B", " ">>

(* C19: with strip markup off and no regex and no find/replace, whatever the *)
(* trim and case flags, transforming the result again changes nothing.       *)
C19_TransformIdempotent ==
    ( /\ xpc = "twice"
      /\ ~arg.item.strip_html /\ arg.item.regex = None /\ arg.item.replace = None )
    => ret[2] = ret[1]

(* Witness of C19: a text with blanks at its ends and letters of both cases, *)
(* trimmed and uppercased twice.                                             *)
C19_Witness ==
    /\ xpc = "twice"
    /\ ~arg.item.strip_html /\ arg.item.regex = None /\ arg.item.replace = None
    /\ arg.item.trim /\ arg.item.uppercase
    /\ arg.value = <<" ", "A", "b", " ">>
    /\ ret = <<<<"A", "B">>, <<"A", "B">>>>

-----------------------------------------------------------------------------
(* A whole run of main: validation, the url list, pagination, the loop over  *)
(* the urls with its fetches and extractions, and the output.                *)

MaxUrls == 2

(* The url lists a configuration may give. *)
UrlLists == SeqsUpTo(FetchUrls, MaxUrls)

(* A web where the first url links on to the second, which may link on. *)
MainWeb ==
    [known |-> (UrlA :> {Page(200, LinkPage(<<"a">>, <<"/", "b">>))})
               @@ (UrlB :> {Page(200, BodyB), Page(200, LinkPage(<<"b">>, <<"c">>)),
                            Page(404, ErrorPage)}),
     other |-> {Page(200, FullPage), Page(200, BlankPage)}]

(* Pagination by pattern over two pages, with and without stop_on_empty; by  *)
(* next link; with both members; with neither; over an empty range.          *)
MainPaginations ==
    {[next_selector |-> ns, page_pattern |-> pp, start_page |-> 1, max_pages |-> m,
      end_page |-> e, stop_on_empty |-> soe] :
        ns \in {None, Some("a.next")},
        pp \in {None, Some(<<"?", "p", "=", "{", "p", "a", "g", "e", "}">>)},
        m \in {0, 2}, e \in {Some(0), Some(2)}, soe \in BOOLEAN}

(* The runs: every combination of url and urls without pagination and with   *)
(* one; every pagination on a single url, under a delay, a schema with a     *)
(* selector that does not parse; runs with a retry and a cache.              *)
MainSetups ==
    {[config |-> [PlainConfig EXCEPT !.url = u, !.urls = us, !.pagination = pg, !.delay = d],
      data_config |-> TitleSchema] :
        u \in {None, Some(UrlA), Some(<<"x">>)},
        us \in {None} \cup {Some(list) : list \in UrlLists},
        pg \in {None,
                Some([next_selector |-> None,
                      page_pattern |-> Some(<<"?", "p", "=", "{", "p", "a", "g", "e", "}">>),
                      start_page |-> 1, max_pages |-> 0, end_page |-> Some(2),
                      stop_on_empty |-> FALSE])},
        d \in {0, 50}}
    \cup
    {[config |-> [PlainConfig EXCEPT !.urls = us, !.pagination = Some(pg), !.delay = d],
      data_config |-> sch] :
        us \in {None, Some(<<UrlA>>)}, pg \in MainPaginations, d \in {0, 50},
        sch \in {TitleSchema, BadSchema}}
    \cup
    {[config |-> [PlainConfig EXCEPT !.urls = us, !.pagination = pg, !.delay = 50,
                                     !.retries = 1, !.cache_dir = Some(".cache"), !.use_cache = TRUE],
      data_config |-> TitleSchema] :
        us \in {None, Some(<<UrlB, UrlB>>)},
        pg \in {None} \cup {Some(q) : q \in {r \in MainPaginations :
                                                /\ r.stop_on_empty /\ r.end_page = Some(2)
                                                /\ r.max_pages = 2}}}

InitMain ==
    /\ \E setup \in MainSetups :
          /\ config = setup.config
          /\ data_config = setup.data_config
    /\ env = DefaultEnv
    /\ site = MainWeb
    /\ fs = EmptyMap
    /\ served = EmptyMap
    /\ FetchIdle
    /\ GenIdle
    /\ ExIdle
    /\ UnitIdle
    /\ mpc = "start"
    /\ murls = <<>>
    /\ idx = 0
    /\ all_results = <<>>
    /\ output = None
    /\ mresult = NoResult
    /\ mlog = <<>>

NextMain ==
    \/ main_validate
    \/ main_paginate
    \/ main_paginated
    \/ main_loop
    \/ main_fetched
    \/ gen_start
    \/ gen_pattern_page
    \/ gen_pattern_probed
    \/ gen_next_loop
    \/ gen_next_fetched
    \/ CheckCache
    \/ BuildClient
    \/ Send
    \/ RetrySleep
    \/ Store

SpecMain == InitMain /\ [][NextMain]_vars

(* The events of one kind in main's log. *)
EventsOf(ev) == SelectSeq(mlog, LAMBDA e : e.ev = ev)

(* The url sequence of the run: the configured list, or the one pagination   *)
(* returned when there is a pagination object and one configured url.        *)
UrlSequence ==
    LET listed == IF config.urls # None THEN config.urls[1] ELSE <<config.url[1]>>
    IN  IF config.pagination # None /\ Len(listed) = 1 THEN gresult.text ELSE listed

(* C15: a finished run made one fetch per url of the url sequence, in the    *)
(* order of the sequence, and its output is one tree when the sequence has   *)
(* exactly one url and otherwise the list with one tree per url, the i-th    *)
(* tree being the extraction of the text fetched from the i-th url.          *)
C15_OutputPerUrlInOrder ==
    mpc = "done" =>
        LET n == Len(UrlSequence)
            Tree(i) == to_value(populate_values(EventsOf("extracted")[i].text, data_config))
        IN  /\ murls = UrlSequence
            /\ [i \in 1..Len(EventsOf("fetch")) |-> EventsOf("fetch")[i].url] = UrlSequence
            /\ [i \in 1..Len(EventsOf("extracted")) |-> EventsOf("extracted")[i].url]
                   = UrlSequence
            /\ \A i \in 1..Len(mlog) :
                  mlog[i].ev = "fetch" =>
                      /\ i < Len(mlog)
                      /\ mlog[i + 1].ev = "extracted"
                      /\ mlog[i + 1].url = mlog[i].url
            /\ output # None
            /\ IF n = 1
               THEN output[1] = Tree(1)
               ELSE /\ output[1].kind = "Array"
                    /\ Len(output[1].items) = n
                    /\ \A i \in 1..n : output[1].items[i] = Tree(i)

(* Witness of C15: the listed urls B, A gave the list of B's tree and A's    *)
(* tree.                                                                     *)
C15_Witness ==
    /\ mpc = "done"
    /\ config.urls = Some(<<UrlB, UrlA>>)
    /\ output = Some(JsonArray(<<JsonObject(("title" :> JsonString(<<"b">>))),
                                 JsonObject(("title" :> JsonString(<<"a">>)))>>))

(* C18: a configuration that passed validation supplies at least one target  *)
(* url, a url or a list that holds one, and its run starts from a url list   *)
(* that is not empty.                                                        *)
C18_ValidatedConfigHasUrl ==
    (mpc # "start" /\ mresult # Err("invalid config")) =>
        /\ \/ config.url # None
           \/ config.urls # None /\ config.urls[1] # <<>>
        /\ mpc = "urls" => murls # <<>>

ProbesOf(n) == Cardinality({k \in 1..Len(probelog) : probelog[k].page = n})

(* C23: a finished run of the pattern strategy with stopOnEmpty called the   *)
(* fetch once for the first page (by the main loop) and twice for every      *)
(* later page kept in the sequence (once by the probe, once by the main      *)
(* loop); each tree of the output is the extraction of the text the main     *)
(* loop fetched, not of the probe's; a page dropped as empty was fetched     *)
(* once, by the probe, and its url is not fetched by the main loop.          *)
C23_DoubleFetch ==
    ( /\ mpc = "done" /\ IsSome(config.pagination) /\ config.urls \in {None, Some(<<UrlA>>)}
      /\ IsSome(Pagination.page_pattern) /\ Pagination.stop_on_empty ) =>
        LET mains == EventsOf("fetch")
            texts == EventsOf("extracted")
            dropped == {k \in 1..Len(probelog) : probelog[k].judged /\ probelog[k].empty}
        IN  /\ Len(mains) = Len(upages)
            /\ Len(texts) = Len(upages)
            /\ Len(all_results) = Len(upages)
            /\ gfetches = Len(probelog)
            /\ \A i \in 1..Len(upages) :
                  /\ mains[i].url = urls[i]
                  /\ ProbesOf(upages[i]) = IF i = 1 THEN 0 ELSE 1
                  /\ \A k \in 1..Len(probelog) :
                        probelog[k].page = upages[i] => probelog[k].url = urls[i]
                  /\ all_results[i] = populate_values(texts[i].text, data_config)
            /\ \A k \in dropped :
                  /\ ProbesOf(probelog[k].page) = 1
                  /\ \A i \in 1..Len(upages) : upages[i] # probelog[k].page
                  /\ \A i \in 1..Len(mains) : mains[i].url # probelog[k].url
            /\ gfetches + Len(mains) = 2 * Len(upages) - (IF upages = <<>> THEN 0 ELSE 1)
                                       + Cardinality(dropped)

(* Witness of C23: page 2 was kept because the probe got a page with a title, *)
(* and the main loop, fetching it again, got a blank one: the second tree of *)
(* the output has the empty title.                                           *)
C23_Witness ==
    /\ mpc = "done" /\ IsSome(config.pagination)
    /\ IsSome(Pagination.page_pattern) /\ Pagination.stop_on_empty
    /\ upages = <<1, 2>>
    /\ Len(probelog) = 1
    /\ probelog[1].page = 2 /\ probelog[1].text = FullPage /\ ~probelog[1].empty
    /\ EventsOf("extracted")[2].text = BlankPage
    /\ all_results[2] = ("title" :> StringItem(<<>>))

(* The number of fetch events among the first i events of main's log. *)
FetchOrdinal(i) == Cardinality({k \in 1..i : mlog[k].ev = "fetch"})

(* C24: the main loop handles the urls one at a time in sequence order, the  *)
(* fetch of a url coming only after the extraction of the one before it, and *)
(* with a delay greater than 0 exactly one sleep stands directly before      *)
(* every fetch but the first: n - 1 sleeps for n urls, cache hit or not.     *)
C24_SequentialWithDelay ==
    /\ \A i \in 1..Len(mlog) :
          /\ mlog[i].ev = "fetch" =>
                LET j == FetchOrdinal(i)
                    before == IF config.delay > 0 THEN i - 2 ELSE i - 1
                IN  /\ mlog[i].url = murls[j]
                    /\ j = 1 => i = 1
                    /\ j > 1 =>
                          /\ before >= 1
                          /\ mlog[before].ev = "extracted"
                          /\ mlog[before].url = murls[j - 1]
                          /\ config.delay > 0 => mlog[i - 1].ev = "sleep"
          /\ mlog[i].ev = "sleep" =>
                /\ config.delay > 0
                /\ i < Len(mlog)
                /\ mlog[i + 1].ev = "fetch"
          /\ mlog[i].ev = "extracted" =>
                /\ i > 1
                /\ mlog[i - 1].ev = "fetch"
                /\ mlog[i - 1].url = mlog[i].url
    /\ (fcaller = "main" /\ fpc # "idle") =>
          /\ mlog[Len(mlog)].ev = "fetch"
          /\ Len(all_results) = FetchOrdinal(Len(mlog)) - 1
    /\ mpc = "done" =>
          /\ Len(EventsOf("fetch")) = Len(murls)
          /\ Len(EventsOf("sleep"))
                = IF config.delay > 0 /\ murls # <<>> THEN Len(murls) - 1 ELSE 0

(* Witness of C24: the second fetch of the same url, answered from the cache *)
(* without a request, came after the first extraction and one sleep.         *)
C24_Witness ==
    /\ mpc = "fetch" /\ fcaller = "main" /\ fpc = "done"
    /\ fresult.ok /\ attempts = 0
    /\ config.delay > 0
    /\ [i \in 1..Len(mlog) |-> mlog[i].ev] = <<"fetch", "extracted", "sleep", "fetch">>
    /\ mlog[4].url = UrlB

(* C25: when a fetch of the main loop returns an error the run fails with    *)
(* that error: no further url is fetched, nothing more happens, and no       *)
(* output is written, the trees extracted so far included.                   *)
C25_MainFetchFailureIsFatal ==
    /\ [][(mpc = "fetch" /\ fcaller = "main" /\ fpc = "done" /\ ~fresult.ok) =>
             /\ mpc' = "failed"
             /\ mresult' = Err(fresult.err)
             /\ output' = None
             /\ all_results' = all_results
             /\ fpc' = "idle"
             /\ \A i \in (Len(mlog) + 1)..Len(mlog') :
                   mlog'[i].ev \notin {"fetch", "sleep"}]_vars
    /\ [][mpc # "failed"]_vars
    /\ [](mpc = "failed" => output = None /\ fpc = "idle")

(* Witness of C25: the fetch of the second of three urls failed after the    *)
(* first had been extracted; there is no output.                             *)
C25_Witness ==
    /\ mpc = "failed"
    /\ Len(murls) = 3
    /\ Len(all_results) = 1
    /\ Len(EventsOf("fetch")) = 2
    /\ mlog[Len(mlog)].ev = "failed"
    /\ mresult = Err("timeout")
    /\ output = None

(* C29: generate_paginated_urls is called only for a configuration with a    *)
(* pagination object whose url list has exactly one entry, with that entry   *)
(* as base url, and then it is called; with a list of two or more urls the   *)
(* generator stays untouched, no probe and no next-link fetch is made, and   *)
(* the main loop fetches exactly the listed urls in list order.              *)
C29_PaginationNeedsSingleUrl ==
    LET listed == get_urls(config)
        fetched == [i \in 1..Len(EventsOf("fetch")) |-> EventsOf("fetch")[i].url]
    IN  /\ gpc # "idle" =>
              /\ IsSome(config.pagination)
              /\ Len(listed) = 1
              /\ base_url = listed[1]
        /\ ( /\ IsSome(config.pagination) /\ Len(listed) = 1
             /\ mpc \notin {"start", "urls"} /\ mresult # Err("invalid config") ) =>
              gpc # "idle"
        /\ Len(listed) >= 2 =>
              /\ GenIdle
              /\ fcaller \notin {"probe", "next"}
              /\ mpc \notin {"paginating", "panicked"}
              /\ (mpc # "start" /\ mresult # Err("invalid config")) => murls = listed
              /\ Len(fetched) <= Len(listed)
              /\ \A i \in 1..Len(fetched) : fetched[i] = listed[i]
              /\ mpc = "done" =>
                    /\ fetched = listed
                    /\ Len(all_results) = Len(listed)

(* Witness of C29: a finished run of a two-url list with a pagination object *)
(* fetched the two listed urls and never called the generator.               *)
C29_Witness ==
    /\ mpc = "done"
    /\ IsSome(config.pagination)
    /\ config.urls = Some(<<UrlA, UrlB>>)
    /\ GenIdle
    /\ [i \in 1..Len(EventsOf("fetch")) |-> EventsOf("fetch")[i].url] = <<UrlA, UrlB>>
    /\ Len(all_results) = 2

====
